---- MODULE Spec2Model ----
(***************************************************************************)
(* game-control: the single-instance guard (pkg/singleinstance), the quota *)
(* record (pkg/quota) and the control loop (internal/controller.go).       *)
(*                                                                         *)
(* Three groups of variables, one per component, and one specification per *)
(* way of driving them:                                                    *)
(*   SpecGuard     processes racing through the filesystem steps of        *)
(*                 Acquire and Release                                     *)
(*   SpecGuardSeq  the same steps, one Acquire/Release call at a time      *)
(*   SpecGuardRace the filesystem steps alone, every process in Acquire    *)
(*   SpecQuota     the methods of QuotaState called in any order           *)
(*   Spec          Controller.Run: ticks, the shutdown signal, cleanup     *)
(* Time is in whole seconds (the Unix timestamps the code stores).         *)
(***************************************************************************)
EXTENDS Integers, Sequences, FiniteSets, TLC

VARIABLES
    now,        \* wall clock, seconds (time.Now().Unix())
    \* ---- pkg/singleinstance ----
    marker,     \* the lock file at lockFilePath(name): NoFile or [ino, pid, ts]
    alive,      \* alive[p]: process p exists (what signal 0 would find)
    pc,         \* pc[p]: where p stands inside Acquire ("idle" outside a call)
    attempt,    \* attempt[p]: the loop counter of Acquire
    data,       \* data[p]: what os.ReadFile returned to p
    res,        \* res[p]: what p's last Acquire/Release call returned
    guard,      \* guard[p]: the *Guard p was given: "none", "held", "released",
                \* "released again"
    \* ---- pkg/quota ----
    cfg,        \* the validated configuration the record was built with
    q,          \* the QuotaState record
    sent,       \* per notification, how often since the last Reset its consume
                \* operation answered true (in a tick: the notifier was called)
    call,       \* SpecQuota: the method called last: its receiver before the
                \* call and what it returned
    \* ---- internal/controller.go ----
    lastSaveTime,   \* Controller.lastSaveTime
    disk,           \* the state file: [status, rec], status "absent", "corrupt"
                    \* or "saved" (rec is then the JSON object in the file)
    running,        \* Run has not returned
    diskFaults,     \* writes of the state file that have failed so far
    ev,             \* what the last tick (or cleanup) did
    \* ---- pkg/quota: QuotaState.mu ----
    mu,         \* the goroutine that holds q.mu, or "free"
    thr,        \* thr[t]: the QuotaState method goroutine t is in: its name,
                \* the statement it is at, its argument and the fields read
    \* ---- internal/controller.go: Run ----
    sigChan,    \* the signals delivered and not yet received (room for one),
                \* each with the time it was delivered
    loop        \* the goroutine of Run: where it is (at the select, or in
                \* the call of tick), the calls of tick in flight (the time
                \* each began), and what waits in ticker.C (room for one)

guardVars == <<marker, alive, pc, attempt, data, res, guard>>
quotaVars == <<cfg, q, sent, call>>
ctlVars == <<lastSaveTime, disk, running, diskFaults, ev>>
muVars == <<mu, thr>>
vars == <<now, guardVars, quotaVars, ctlVars, muVars, sigChan, loop>>

----------------------------------------------------------------------------
(* Bounds *)

NProcs == 2             \* processes that call Acquire
GuardTicks == 2         \* single seconds the guard's clock may add up
GuardDays == 1          \* staleness periods the guard's clock may add up

MaxLimit == 2           \* largest dailyLimit (minutes) of a configuration
MaxThreshold == 2       \* largest warning threshold (minutes)
QuotaTicks == 1         \* single seconds the clock of SpecQuota may add up
QuotaDays == 1          \* days the clock of SpecQuota may add up
QuotaOver == 1          \* minutes AddTime may go beyond the limit in SpecQuota

NPids == 2              \* tracked processes a scan may return
CtlTicks == 13          \* tick intervals the loop's clock may add up within a day
CtlDays == 1            \* days the loop's clock may add up
CtlAwake == 2           \* tick intervals into a day by which a day-long pause begins
MaxDiskFaults == 1      \* writes of the state file that may fail
RestartTicks == 5       \* tick intervals looked at across restarts

(* Program constants *)

StaleSeconds == 86400   \* 24*time.Hour, in seconds
MaxAttempts == 2        \* for attempt := 0; attempt < 2
DaySeconds == 86400     \* nextReset.Add(24 * time.Hour)
MinuteSeconds == 60     \* AccumulatedTime / 60
TickSeconds == 5        \* time.NewTicker(5 * time.Second); AddTime(5)
SaveInterval == 60      \* time.Since(c.lastSaveTime) >= 1*time.Minute
ResetHour == 8          \* resetTime "08:00"
ResetMinute == 0

----------------------------------------------------------------------------
(* pkg/config: what Validate lets through *)

ConfigValid(c) ==
    /\ c.DailyLimit > 0
    /\ c.ResetTime[1] \in 0 .. 23 /\ c.ResetTime[2] \in 0 .. 59
    /\ c.FirstThreshold >= 0 /\ c.FinalThreshold >= 0
    /\ c.FinalThreshold <= c.FirstThreshold

Configs ==
    {c \in [DailyLimit : 1 .. MaxLimit,
            FirstThreshold : 0 .. MaxThreshold,
            FinalThreshold : 0 .. MaxThreshold,
            ResetTime : {<<ResetHour, ResetMinute>>}] : ConfigValid(c)}

----------------------------------------------------------------------------
(* pkg/quota: QuotaState *)

\* time.Date(now.Year(), now.Month(), now.Day(), hour, minute, 0, 0, loc),
\* with the days of the clock starting at multiples of DaySeconds.
ResetOffset(c) == c.ResetTime[1] * 3600 + c.ResetTime[2] * 60
TodaysReset(c, t) == (t - (t % DaySeconds)) + ResetOffset(c)

\* if now.After(nextReset) { nextReset = nextReset.Add(24 * time.Hour) }
NextResetFrom(c, t) ==
    IF t > TodaysReset(c, t) THEN TodaysReset(c, t) + DaySeconds
                             ELSE TodaysReset(c, t)

NewQuotaState(c, t) ==
    [AccumulatedTime |-> 0,
     LastResetTime |-> t,
     NextResetTime |-> NextResetFrom(c, t),
     FirstWarningNotified |-> FALSE,
     FinalWarningNotified |-> FALSE,
     LimitNotified |-> FALSE]

GetAccumulatedMinutes(r) == r.AccumulatedTime \div MinuteSeconds

\* GetRemainingMinutes as it would be without lines 66-68.
GetRemainingMinutes_Unclamped(r, c) == c.DailyLimit - GetAccumulatedMinutes(r)

GetRemainingMinutes(r, c) ==
    LET remaining == c.DailyLimit - GetAccumulatedMinutes(r)
    IN  IF remaining < 0 THEN 0 ELSE remaining

\* IsLimitExceeded as it would be if it compared the remaining minutes,
\* rounded down, with one.
IsLimitExceeded_LastMinute(r, c) == GetAccumulatedMinutes(r) + 1 >= c.DailyLimit

IsLimitExceeded(r, c) == GetAccumulatedMinutes(r) >= c.DailyLimit

\* AddTime as it would be with an upper clamp at the daily limit.
AddTime_Clamped(r, seconds) ==
    [r EXCEPT !.AccumulatedTime =
        IF @ + seconds > cfg.DailyLimit * MinuteSeconds
        THEN cfg.DailyLimit * MinuteSeconds ELSE @ + seconds]

AddTime(r, seconds) == [r EXCEPT !.AccumulatedTime = @ + seconds]

\* time.Now().After(time.Unix(q.NextResetTime, 0))
ShouldReset(r, t) == t > r.NextResetTime

\* Reset as it would be without line 102: the accumulated time survives.
Reset_KeepsTime(r, c, t) ==
    [r EXCEPT !.LastResetTime = t,
              !.FirstWarningNotified = FALSE,
              !.FinalWarningNotified = FALSE,
              !.LimitNotified = FALSE,
              !.NextResetTime = NextResetFrom(c, t)]

\* Reset as it would be without lines 104-106: the flags survive.
Reset_KeepsFlags(r, c, t) ==
    [r EXCEPT !.AccumulatedTime = 0,
              !.LastResetTime = t,
              !.NextResetTime = NextResetFrom(c, t)]

Reset(r, c, t) ==
    [r EXCEPT !.AccumulatedTime = 0,
              !.LastResetTime = t,
              !.FirstWarningNotified = FALSE,
              !.FinalWarningNotified = FALSE,
              !.LimitNotified = FALSE,
              !.NextResetTime = NextResetFrom(c, t)]

\* ConsumeWarningNotifications as it would be with < in place of the <= of
\* line 209.
ConsumeWarningNotifications_BelowFirst(r, c) ==
    LET remaining == GetRemainingMinutes(r, c)
    IN  IF remaining <= c.FinalThreshold
        THEN [q |-> [r EXCEPT !.FinalWarningNotified = TRUE],
              first |-> FALSE,
              final |-> ~r.FinalWarningNotified]
        ELSE IF remaining < c.FirstThreshold /\ remaining > c.FinalThreshold
        THEN [q |-> [r EXCEPT !.FirstWarningNotified = TRUE],
              first |-> ~r.FirstWarningNotified,
              final |-> FALSE]
        ELSE [q |-> r, first |-> FALSE, final |-> FALSE]

\* ConsumeWarningNotifications as it would be with the return of line 206
\* inside the if above it and without the lower bound of line 209: once the
\* final warning is given the first threshold is looked at.
ConsumeWarningNotifications_FallsThrough(r, c) ==
    LET remaining == GetRemainingMinutes(r, c)
    IN  IF remaining <= c.FinalThreshold /\ ~r.FinalWarningNotified
        THEN [q |-> [r EXCEPT !.FinalWarningNotified = TRUE],
              first |-> FALSE, final |-> TRUE]
        ELSE IF remaining <= c.FirstThreshold
        THEN [q |-> [r EXCEPT !.FirstWarningNotified = TRUE],
              first |-> ~r.FirstWarningNotified,
              final |-> FALSE]
        ELSE [q |-> r, first |-> FALSE, final |-> FALSE]

\* ConsumeWarningNotifications as it would be if it answered without looking
\* at the flags.
ConsumeWarningNotifications_IgnoresFlags(r, c) ==
    LET remaining == GetRemainingMinutes(r, c)
    IN  IF remaining <= c.FinalThreshold
        THEN [q |-> [r EXCEPT !.FinalWarningNotified = TRUE],
              first |-> FALSE, final |-> TRUE]
        ELSE IF remaining <= c.FirstThreshold /\ remaining > c.FinalThreshold
        THEN [q |-> [r EXCEPT !.FirstWarningNotified = TRUE],
              first |-> TRUE, final |-> FALSE]
        ELSE [q |-> r, first |-> FALSE, final |-> FALSE]

\* ConsumeWarningNotifications as it would be without the early return of line
\* 206 and the lower bound of line 209: both thresholds are looked at.
ConsumeWarningNotifications_NoTieBreak(r, c) ==
    LET remaining == GetRemainingMinutes(r, c)
        inFinal == remaining <= c.FinalThreshold
        inFirst == remaining <= c.FirstThreshold
    IN  [q |-> [r EXCEPT !.FinalWarningNotified = @ \/ inFinal,
                         !.FirstWarningNotified = @ \/ inFirst],
         first |-> inFirst /\ ~r.FirstWarningNotified,
         final |-> inFinal /\ ~r.FinalWarningNotified]

\* The record after the call, and the two answers.
ConsumeWarningNotifications(r, c) ==
    LET remaining == GetRemainingMinutes(r, c)
    IN  IF remaining <= c.FinalThreshold
        THEN [q |-> [r EXCEPT !.FinalWarningNotified = TRUE],
              first |-> FALSE,
              final |-> ~r.FinalWarningNotified]
        ELSE IF remaining <= c.FirstThreshold /\ remaining > c.FinalThreshold
        THEN [q |-> [r EXCEPT !.FirstWarningNotified = TRUE],
              first |-> ~r.FirstWarningNotified,
              final |-> FALSE]
        ELSE [q |-> r, first |-> FALSE, final |-> FALSE]

\* ConsumeLimitNotification as it would be without lines 227-229.
ConsumeLimitNotification_IgnoresFlag(r, c) ==
    IF GetAccumulatedMinutes(r) < c.DailyLimit THEN [q |-> r, fire |-> FALSE]
    ELSE [q |-> [r EXCEPT !.LimitNotified = TRUE], fire |-> TRUE]

\* The record after the call, and the answer.
ConsumeLimitNotification(r, c) ==
    IF GetAccumulatedMinutes(r) < c.DailyLimit THEN [q |-> r, fire |-> FALSE]
    ELSE IF r.LimitNotified THEN [q |-> r, fire |-> FALSE]
    ELSE [q |-> [r EXCEPT !.LimitNotified = TRUE], fire |-> TRUE]

\* sent also keeps the counts of the cycle before the last Reset, and the sum
\* of the seconds passed to AddTime since the last Reset.
NoneSent == [first |-> 0, final |-> 0, limit |-> 0,
             prevFirst |-> 0, prevFinal |-> 0, prevLimit |-> 0, added |-> 0]
SentAfterReset(s) == [first |-> 0, final |-> 0, limit |-> 0,
                      prevFirst |-> s.first, prevFinal |-> s.final,
                      prevLimit |-> s.limit, added |-> 0]
SentAfterAddTime(s, seconds) == [s EXCEPT !.added = @ + seconds]
Count(b) == IF b THEN 1 ELSE 0

(* pkg/quota: SaveToFile, LoadFromFile, Validate *)

\* encoding/json writes an int64 as its decimal text: a sign and the digits,
\* most significant first; it reads one back digit by digit.
RECURSIVE FormatUint(_)
FormatUint(n) ==
    IF n < 10 THEN <<n>> ELSE Append(FormatUint(n \div 10), n % 10)

FormatInt(n) ==
    [neg |-> n < 0, digits |-> FormatUint(IF n < 0 THEN -n ELSE n)]

RECURSIVE ParseUint(_)
ParseUint(ds) ==
    IF Len(ds) = 0 THEN 0
    ELSE ParseUint(SubSeq(ds, 1, Len(ds) - 1)) * 10 + ds[Len(ds)]

ParseInt(tok) == IF tok.neg THEN -ParseUint(tok.digits) ELSE ParseUint(tok.digits)

\* A bool is written as the literal true or false.
FormatBool(b) == IF b THEN "true" ELSE "false"
ParseBool(tok) == tok = "true"

\* json.MarshalIndent as it would be if the three flags had no json tag of
\* their own and were left out of the object.
MarshalIndent_OmitsFlags(r) ==
    [accumulatedTime |-> FormatInt(r.AccumulatedTime),
     lastResetTime |-> FormatInt(r.LastResetTime),
     nextResetTime |-> FormatInt(r.NextResetTime)]

\* json.MarshalIndent(q, "", "  "): one JSON object with the exported fields
\* under the names of their json tags; mu and cfg are not exported.
MarshalIndent(r) ==
    [accumulatedTime |-> FormatInt(r.AccumulatedTime),
     lastResetTime |-> FormatInt(r.LastResetTime),
     nextResetTime |-> FormatInt(r.NextResetTime),
     firstWarningNotified |-> FormatBool(r.FirstWarningNotified),
     finalWarningNotified |-> FormatBool(r.FinalWarningNotified),
     limitNotified |-> FormatBool(r.LimitNotified)]

IntField(doc, key) == IF key \in DOMAIN doc THEN ParseInt(doc[key]) ELSE 0
BoolField(doc, key) == IF key \in DOMAIN doc THEN ParseBool(doc[key]) ELSE FALSE

\* json.Unmarshal as it would be if a flag missing from the object were taken
\* as already notified.
Unmarshal_MissingFlagSet(doc) ==
    [AccumulatedTime |-> IntField(doc, "accumulatedTime"),
     LastResetTime |-> IntField(doc, "lastResetTime"),
     NextResetTime |-> IntField(doc, "nextResetTime"),
     FirstWarningNotified |-> ~("firstWarningNotified" \in DOMAIN doc)
                                \/ BoolField(doc, "firstWarningNotified"),
     FinalWarningNotified |-> ~("finalWarningNotified" \in DOMAIN doc)
                                \/ BoolField(doc, "finalWarningNotified"),
     LimitNotified |-> ~("limitNotified" \in DOMAIN doc)
                                \/ BoolField(doc, "limitNotified")]

\* json.Unmarshal(data, &state) into a zero QuotaState: a field whose name is
\* in the object takes its value, any other field keeps its zero value.
Unmarshal(doc) ==
    [AccumulatedTime |-> IntField(doc, "accumulatedTime"),
     LastResetTime |-> IntField(doc, "lastResetTime"),
     NextResetTime |-> IntField(doc, "nextResetTime"),
     FirstWarningNotified |-> BoolField(doc, "firstWarningNotified"),
     FinalWarningNotified |-> BoolField(doc, "finalWarningNotified"),
     LimitNotified |-> BoolField(doc, "limitNotified")]

\* Validate returns nil.
Validate(r) ==
    /\ r.AccumulatedTime >= 0
    /\ r.LastResetTime > 0
    /\ r.NextResetTime > 0

NoRecord ==
    [AccumulatedTime |-> -1, LastResetTime |-> 0, NextResetTime |-> 0,
     FirstWarningNotified |-> FALSE, FinalWarningNotified |-> FALSE,
     LimitNotified |-> FALSE]
NoStateFile == [status |-> "absent", rec |-> NoRecord]
BrokenStateFile == [status |-> "corrupt", rec |-> NoRecord]

\* LoadFromFile(cfg): the state (NoRecord stands for the nil pointer) and the
\* error: "not exist" (line 156), "parse" (line 166) or "nil".
LoadFromFile(file) ==
    IF file.status = "absent" THEN [state |-> NoRecord, err |-> "not exist"]
    ELSE IF file.status = "corrupt" THEN [state |-> NoRecord, err |-> "parse"]
    ELSE [state |-> Unmarshal(file.rec), err |-> "nil"]

\* runStart as it would be without the call of Validate.
runStart_NoValidate(file, c, t) ==
    LET loaded == LoadFromFile(file)
    IN  IF loaded.err # "nil" \/ loaded.state = NoRecord
        THEN NewQuotaState(c, t)
        ELSE loaded.state

\* runStart: the record handed to NewController.
runStart(file, c, t) ==
    LET loaded == LoadFromFile(file)
    IN  IF loaded.err # "nil" \/ loaded.state = NoRecord
        THEN NewQuotaState(c, t)
        ELSE IF ~Validate(loaded.state) THEN NewQuotaState(c, t)
        ELSE loaded.state

NoEvent ==
    [kind |-> "none", reset |-> FALSE, scan |-> "none", scanned |-> {},
     exceeded |-> FALSE, notified |-> "none", notifyErr |-> FALSE,
     terminated |-> {}, termErr |-> {}, save |-> "none"]

\* The goroutines of the process that call the methods of the record: the
\* control loop, and a status query beside it.
Threads == {"tick", "query"}
NoneRead == [f \in {} |-> 0]
NoMethod == [op |-> "none", at |-> 0, arg |-> 0, seen |-> NoneRead]

\* No method of the record is in flight.
MutexIdle ==
    /\ mu = "free"
    /\ thr = [t \in Threads |-> NoMethod]

\* sigChan := make(chan os.Signal, 1)
NoSignal == <<>>

\* Run is at its select, no tick is in flight, ticker.C is empty.
AtSelect == [at |-> "select", ticks |-> <<>>, tickerC |-> 0]

\* The controller's variables while no control loop is looked at.
CtlIdle ==
    /\ lastSaveTime = 0
    /\ disk = NoStateFile
    /\ running = FALSE
    /\ diskFaults = 0
    /\ ev = NoEvent

\* The quota variables while only the guard is looked at.
QuotaStart == DaySeconds + (ResetHour * 3600 + ResetMinute * 60) - 1
QuotaIdle ==
    /\ MutexIdle
    /\ sigChan = NoSignal
    /\ loop = AtSelect
    /\ cfg = [DailyLimit |-> 1, FirstThreshold |-> 0, FinalThreshold |-> 0,
              ResetTime |-> <<ResetHour, ResetMinute>>]
    /\ q = NewQuotaState(cfg, QuotaStart)
    /\ sent = NoneSent
    /\ call = [op |-> "NewQuotaState", recv |-> q, ret |-> <<>>]
    /\ CtlIdle

----------------------------------------------------------------------------
(* pkg/singleinstance *)

Procs == 1 .. NProcs
\* The pid recorded in a marker left behind before this run (as the 999999 of
\* TestAcquireCleansStaleLock): no process of this run has it.
GonePid == NProcs + 1

NoFile == [ino |-> 0, pid |-> -1, ts |-> 0]
NoData == [pid |-> -1, ts |-> 0]
ErrAlreadyRunning == "ErrAlreadyRunning"
IOError == "IOError"

\* An exclusive create that succeeded: an empty file, whose inode belongs to p.
EmptyFile(p) == [ino |-> p, pid |-> 0, ts |-> 0]

\* fmt.Fprintf(file, "%d\n%d\n", os.Getpid(), time.Now().Unix()) through the
\* handle p opened: it lands in the marker only if the path still names p's file.
WrittenFile(m, p, t) ==
    IF m # NoFile /\ m.ino = p THEN [ino |-> p, pid |-> p, ts |-> t] ELSE m

isProcessRunning(pid) == pid \in Procs /\ alive[pid]

\* The part of lockOwnedByActiveProcess after the read: parse the pid, compare
\* the timestamp with the staleness bound, probe the owner.
StaleByAge_AtBound(d, t) == t - d.ts >= StaleSeconds

StaleByAge_Never(d, t) == FALSE

StaleByAge(d, t) == t - d.ts > StaleSeconds

lockOwnedByActiveProcess(d, t) ==
    IF d.pid <= 0 THEN FALSE
    ELSE IF StaleByAge(d, t) THEN FALSE
    ELSE isProcessRunning(d.pid)

Calling(p) == pc[p] # "idle"
NoCallInFlight == \A o \in Procs : ~Calling(o)

InitGuard ==
    /\ marker \in {NoFile, [ino |-> GonePid, pid |-> GonePid, ts |-> 0]}
    /\ alive = [p \in Procs |-> TRUE]
    /\ pc = [p \in Procs |-> "idle"]
    /\ attempt = [p \in Procs |-> 0]
    /\ data = [p \in Procs |-> NoData]
    /\ res = [p \in Procs |-> "none"]
    /\ guard = [p \in Procs |-> "none"]

\* p returns from Acquire with result r.
Return(p, r) ==
    /\ pc' = [pc EXCEPT ![p] = "idle"]
    /\ attempt' = [attempt EXCEPT ![p] = 0]
    /\ data' = [data EXCEPT ![p] = NoData]
    /\ res' = [res EXCEPT ![p] = r]

\* Acquire is entered.
BeginAcquire(p) ==
    /\ alive[p] /\ ~Calling(p) /\ guard[p] # "held"
    /\ pc' = [pc EXCEPT ![p] = "create"]
    /\ attempt' = [attempt EXCEPT ![p] = 0]
    /\ res' = [res EXCEPT ![p] = "none"]
    /\ UNCHANGED <<now, marker, alive, data, guard, quotaVars, ctlVars, muVars, sigChan, loop>>

\* os.OpenFile(path, O_CREATE|O_EXCL|O_WRONLY)
Create(p) ==
    /\ alive[p] /\ pc[p] = "create"
    /\ \/ /\ marker = NoFile
          /\ marker' = EmptyFile(p)
          /\ pc' = [pc EXCEPT ![p] = "write"]
          /\ UNCHANGED <<attempt, data, res>>
       \/ /\ marker # NoFile           \* os.IsExist(err)
          /\ pc' = [pc EXCEPT ![p] = "read"]
          /\ UNCHANGED <<marker, attempt, data, res>>
       \/ /\ Return(p, IOError)        \* any other error
          /\ UNCHANGED marker
    /\ UNCHANGED <<now, alive, guard, quotaVars, ctlVars, muVars, sigChan, loop>>

\* fmt.Fprintf(...); return &Guard{...}, nil
Write(p) ==
    /\ alive[p] /\ pc[p] = "write"
    /\ marker' = WrittenFile(marker, p, now)
    /\ guard' = [guard EXCEPT ![p] = "held"]
    /\ Return(p, "guard")
    /\ UNCHANGED <<now, alive, quotaVars, ctlVars, muVars, sigChan, loop>>

\* The read as it would be if Acquire took a failed check of the owner for a
\* running instance.
Read_FailureMeansRunning(p) ==
    /\ alive[p] /\ pc[p] = "read"
    /\ \/ /\ marker # NoFile
          /\ data' = [data EXCEPT ![p] = [pid |-> marker.pid, ts |-> marker.ts]]
          /\ pc' = [pc EXCEPT ![p] = "probe"]
          /\ UNCHANGED <<attempt, res>>
       \/ /\ marker = NoFile
          /\ pc' = [pc EXCEPT ![p] = "remove"]
          /\ UNCHANGED <<attempt, data, res>>
       \/ Return(p, ErrAlreadyRunning)
    /\ UNCHANGED <<now, marker, alive, guard, quotaVars, ctlVars, muVars, sigChan, loop>>

\* os.ReadFile(path) in lockOwnedByActiveProcess
Read(p) ==
    /\ alive[p] /\ pc[p] = "read"
    /\ \/ /\ marker # NoFile
          /\ data' = [data EXCEPT ![p] = [pid |-> marker.pid, ts |-> marker.ts]]
          /\ pc' = [pc EXCEPT ![p] = "probe"]
          /\ UNCHANGED <<attempt, res>>
       \/ /\ marker = NoFile           \* os.IsNotExist(err): not active
          /\ pc' = [pc EXCEPT ![p] = "remove"]
          /\ UNCHANGED <<attempt, data, res>>
       \/ Return(p, IOError)
    /\ UNCHANGED <<now, marker, alive, guard, quotaVars, ctlVars, muVars, sigChan, loop>>

\* the rest of lockOwnedByActiveProcess, and Acquire's test of its answer
Probe(p) ==
    /\ alive[p] /\ pc[p] = "probe"
    /\ IF lockOwnedByActiveProcess(data[p], now)
       THEN Return(p, ErrAlreadyRunning)
       ELSE /\ pc' = [pc EXCEPT ![p] = "remove"]
            /\ UNCHANGED <<attempt, data, res>>
    /\ UNCHANGED <<now, marker, alive, guard, quotaVars, ctlVars, muVars, sigChan, loop>>

\* os.Remove(path), then the next round of the loop
Remove(p) ==
    /\ alive[p] /\ pc[p] = "remove"
    /\ \/ /\ marker' = NoFile          \* removed, or os.IsNotExist
          /\ IF attempt[p] + 1 < MaxAttempts
             THEN /\ pc' = [pc EXCEPT ![p] = "create"]
                  /\ attempt' = [attempt EXCEPT ![p] = @ + 1]
                  /\ data' = [data EXCEPT ![p] = NoData]
                  /\ UNCHANGED res
             ELSE Return(p, ErrAlreadyRunning)
       \/ /\ Return(p, IOError)
          /\ UNCHANGED marker
    /\ UNCHANGED <<now, alive, guard, quotaVars, ctlVars, muVars, sigChan, loop>>

\* os.Remove(g.path) in Release and what Release makes of its error: the file
\* is removed, or was gone already (os.IsNotExist: no error), or the removal of
\* a file that is there fails and the error is returned.
ReleaseResults_GoneIsError(m) ==
    IF m = NoFile THEN {[marker |-> NoFile, res |-> IOError]}
    ELSE {[marker |-> NoFile, res |-> "released"],
          [marker |-> m, res |-> IOError]}

ReleaseResults(m) ==
    IF m = NoFile THEN {[marker |-> NoFile, res |-> "released"]}
    ELSE {[marker |-> NoFile, res |-> "released"],
          [marker |-> m, res |-> IOError]}

\* Guard.Release: close the handle, os.Remove(g.path)
ReleaseCall(p) ==
    /\ \E r \in ReleaseResults(marker) :
          /\ marker' = r.marker
          /\ res' = [res EXCEPT ![p] = r.res]
    /\ guard' = [guard EXCEPT ![p] =
                    IF guard[p] = "held" THEN "released" ELSE "released again"]
    /\ UNCHANGED <<now, alive, pc, attempt, data, quotaVars, ctlVars, muVars, sigChan, loop>>

Release(p) == alive[p] /\ ~Calling(p) /\ guard[p] = "held" /\ ReleaseCall(p)

\* Release called again on a guard that was released already.
ReleaseAgain(p) ==
    /\ alive[p] /\ ~Calling(p)
    /\ guard[p] \in {"released", "released again"}
    /\ ReleaseCall(p)

\* The process ends (exit, kill, power loss): nothing of it runs any more, and
\* whatever it left on disk stays.
Die(p) ==
    /\ alive[p]
    /\ alive' = [alive EXCEPT ![p] = FALSE]
    /\ pc' = [pc EXCEPT ![p] = "idle"]
    /\ attempt' = [attempt EXCEPT ![p] = 0]
    /\ data' = [data EXCEPT ![p] = NoData]
    /\ guard' = [guard EXCEPT ![p] = "none"]
    /\ UNCHANGED <<now, marker, res, quotaVars, ctlVars, muVars, sigChan, loop>>

GuardDeltas == {1, StaleSeconds}

\* Time passes: by a second, or by a whole staleness period.
AdvanceGuardClock(d) ==
    /\ IF d = 1 THEN now % StaleSeconds < GuardTicks
                ELSE now \div StaleSeconds < GuardDays
    /\ now' = now + d
    /\ UNCHANGED <<guardVars, quotaVars, ctlVars, muVars, sigChan, loop>>

NextGuard ==
    \/ \E p \in Procs : BeginAcquire(p)
    \/ \E p \in Procs : Create(p)
    \/ \E p \in Procs : Write(p)
    \/ \E p \in Procs : Read(p)
    \/ \E p \in Procs : Probe(p)
    \/ \E p \in Procs : Remove(p)
    \/ \E p \in Procs : Release(p)
    \/ \E p \in Procs : ReleaseAgain(p)
    \/ \E p \in Procs : Die(p)
    \/ \E d \in GuardDeltas : AdvanceGuardClock(d)

InitGuardAny == now = 0 /\ InitGuard /\ QuotaIdle

SpecGuard == InitGuardAny /\ [][NextGuard]_vars

\* One call at a time: a call is entered only when no other call is in flight,
\* and every guard is released once.
BeginAcquireAlone(p) == NoCallInFlight /\ BeginAcquire(p)
ReleaseAlone(p) == NoCallInFlight /\ Release(p)

NextGuardSeq ==
    \/ \E p \in Procs : BeginAcquireAlone(p)
    \/ \E p \in Procs : Create(p)
    \/ \E p \in Procs : Write(p)
    \/ \E p \in Procs : Read(p)
    \/ \E p \in Procs : Probe(p)
    \/ \E p \in Procs : Remove(p)
    \/ \E p \in Procs : ReleaseAlone(p)
    \/ \E p \in Procs : Die(p)
    \/ \E d \in GuardDeltas : AdvanceGuardClock(d)

InitGuardSeq == now = 0 /\ InitGuard /\ QuotaIdle

SpecGuardSeq == InitGuardSeq /\ [][NextGuardSeq]_vars

\* The race alone: every process has just entered Acquire, and nothing happens
\* but the filesystem steps of these calls (no release, no death, no time).
InitGuardRace ==
    /\ now = 0
    /\ marker \in {NoFile, [ino |-> GonePid, pid |-> GonePid, ts |-> 0]}
    /\ alive = [p \in Procs |-> TRUE]
    /\ pc = [p \in Procs |-> "create"]
    /\ attempt = [p \in Procs |-> 0]
    /\ data = [p \in Procs |-> NoData]
    /\ res = [p \in Procs |-> "none"]
    /\ guard = [p \in Procs |-> "none"]
    /\ QuotaIdle

NextGuardRace ==
    \/ \E p \in Procs : Create(p)
    \/ \E p \in Procs : Write(p)
    \/ \E p \in Procs : Read(p)
    \/ \E p \in Procs : Probe(p)
    \/ \E p \in Procs : Remove(p)

SpecGuardRace == InitGuardRace /\ [][NextGuardRace]_vars

----------------------------------------------------------------------------
(* SpecQuota: the methods of one QuotaState, called in any order *)

GuardIdle ==
    /\ MutexIdle
    /\ sigChan = NoSignal
    /\ loop = AtSelect
    /\ marker = NoFile
    /\ alive = [p \in Procs |-> TRUE]
    /\ pc = [p \in Procs |-> "idle"]
    /\ attempt = [p \in Procs |-> 0]
    /\ data = [p \in Procs |-> NoData]
    /\ res = [p \in Procs |-> "none"]
    /\ guard = [p \in Procs |-> "none"]

InitQuota ==
    /\ now = QuotaStart
    /\ cfg \in Configs
    /\ q = NewQuotaState(cfg, now)
    /\ sent = NoneSent
    /\ call = [op |-> "NewQuotaState", recv |-> q, ret |-> <<>>]
    /\ GuardIdle
    /\ CtlIdle

AddAmounts == {0, 30, 60}

CallAddTime(s) ==
    /\ q.AccumulatedTime + s <= (cfg.DailyLimit + QuotaOver) * MinuteSeconds
    /\ q' = AddTime(q, s)
    /\ sent' = SentAfterAddTime(sent, s)
    /\ call' = [op |-> "AddTime", recv |-> q, ret |-> <<s>>]
    /\ UNCHANGED <<now, cfg, guardVars, ctlVars, muVars, sigChan, loop>>

CallReset ==
    /\ q' = Reset(q, cfg, now)
    /\ sent' = SentAfterReset(sent)
    /\ call' = [op |-> "Reset", recv |-> q, ret |-> <<>>]
    /\ UNCHANGED <<now, cfg, guardVars, ctlVars, muVars, sigChan, loop>>

CallShouldReset ==
    /\ call' = [op |-> "ShouldReset", recv |-> q,
                ret |-> <<ShouldReset(q, now)>>]
    /\ UNCHANGED <<now, cfg, q, sent, guardVars, ctlVars, muVars, sigChan, loop>>

CallConsumeWarningNotifications ==
    LET r == ConsumeWarningNotifications(q, cfg)
    IN  /\ q' = r.q
        /\ sent' = [sent EXCEPT !.first = @ + Count(r.first),
                                !.final = @ + Count(r.final)]
        /\ call' = [op |-> "ConsumeWarningNotifications", recv |-> q,
                    ret |-> <<r.first, r.final>>]
        /\ UNCHANGED <<now, cfg, guardVars, ctlVars, muVars, sigChan, loop>>

CallConsumeLimitNotification ==
    LET r == ConsumeLimitNotification(q, cfg)
    IN  /\ q' = r.q
        /\ sent' = [sent EXCEPT !.limit = @ + Count(r.fire)]
        /\ call' = [op |-> "ConsumeLimitNotification", recv |-> q,
                    ret |-> <<r.fire>>]
        /\ UNCHANGED <<now, cfg, guardVars, ctlVars, muVars, sigChan, loop>>

QuotaDeltas == {1, DaySeconds}

AdvanceQuotaClock(d) ==
    /\ IF d = 1 THEN (now - QuotaStart) % DaySeconds < QuotaTicks
                ELSE (now - QuotaStart) \div DaySeconds < QuotaDays
    /\ now' = now + d
    /\ UNCHANGED <<guardVars, quotaVars, ctlVars, muVars, sigChan, loop>>

NextQuota ==
    \/ \E s \in AddAmounts : CallAddTime(s)
    \/ CallReset
    \/ CallShouldReset
    \/ CallConsumeWarningNotifications
    \/ CallConsumeLimitNotification
    \/ \E d \in QuotaDeltas : AdvanceQuotaClock(d)

SpecQuota == InitQuota /\ [][NextQuota]_vars

----------------------------------------------------------------------------
(* internal/controller.go: Controller *)

Pids == 1 .. NPids

\* FindGameProcesses returns the tracked processes that run: none, one, ...
ScanResults == {1 .. n : n \in 0 .. NPids}

\* for _, proc := range gameProcesses { TerminateWithRetry(proc.PID, ...) }:
\* the processes a tick calls TerminateWithRetry for, given those the scan
\* returned and those whose termination fails.
TerminateTargets_StopAtFailure(scanned, failing) ==
    {p \in scanned : \A f \in scanned \cap failing : p <= f}

TerminateTargets(scanned, failing) == scanned

\* The persist step as it would be with > in place of >= on line 155.
SaveDue_PastInterval(t, last) == t - last > SaveInterval

\* if time.Since(c.lastSaveTime) >= 1*time.Minute
SaveDue(t, last) == t - last >= SaveInterval

\* cleanup saves whatever the time of the last save.
CleanupSaveDue_IfInterval(t, last) == t - last >= SaveInterval

CleanupSaveDue(t, last) == TRUE

\* os.WriteFile(stateFile, json(record)): the file afterwards. It is truncated
\* before it is written, so a failed write leaves the old content or a broken file.
SaveOutcomes == {"ok", "fail", "broken"}
PossibleSaveOutcomes ==
    IF diskFaults < MaxDiskFaults THEN SaveOutcomes ELSE {"ok"}

FileAfterSave(file, r, outcome) ==
    IF outcome = "ok" THEN [status |-> "saved", rec |-> MarshalIndent(r)]
    ELSE IF outcome = "broken" THEN BrokenStateFile
    ELSE file

CtlStart == DaySeconds + (ResetHour * 3600 + ResetMinute * 60) + TickSeconds

\* The configurations the loop is run with: both warnings ahead of the limit;
\* equal thresholds; a first warning due from the start; no final warning band.
CtlConfigs ==
    {c \in Configs :
        \/ c.DailyLimit = 2 /\ c.FirstThreshold = 2 /\ c.FinalThreshold = 1
        \/ c.DailyLimit = 1 /\ c.FirstThreshold = 1 /\ c.FinalThreshold = 1
        \/ c.DailyLimit = 1 /\ c.FirstThreshold = 1 /\ c.FinalThreshold = 0
        \/ c.DailyLimit = 2 /\ c.FirstThreshold = 1 /\ c.FinalThreshold = 0}

\* The time already accumulated when the loop starts (the tests build the
\* record and call AddTime before the first tick): none, or two ticks short of
\* a whole number of minutes.
StartSeconds(c) ==
    {0} \cup {m * MinuteSeconds - 2 * TickSeconds : m \in 1 .. c.DailyLimit}

\* NewQuotaState, AddTime, NewControllerWithDeps.
Init ==
    /\ now = CtlStart
    /\ cfg \in CtlConfigs
    /\ \E a \in StartSeconds(cfg) :
          /\ q = AddTime(NewQuotaState(cfg, now), a)
          /\ sent = SentAfterAddTime(NoneSent, a)
    /\ call = [op |-> "NewQuotaState", recv |-> q, ret |-> <<>>]
    /\ lastSaveTime = now
    /\ disk = NoStateFile
    /\ running = TRUE
    /\ diskFaults = 0
    /\ ev = NoEvent
    /\ GuardIdle

\* The ticker fires dt seconds after the last tick began: one tick interval,
\* or a day (the host slept).
TickDeltas == {TickSeconds, DaySeconds}

TickAllowed(dt) ==
    IF dt = DaySeconds
    THEN /\ (now - CtlStart) \div DaySeconds < CtlDays
         /\ (now - CtlStart) % DaySeconds <= CtlAwake * TickSeconds
    ELSE ((now - CtlStart) % DaySeconds) + dt <= CtlTicks * TickSeconds

\* Controller.tick as it would be with step 1 (the reset check, lines 90-103)
\* at the end of the tick.
tickSteps_ResetLast(t, found) ==
    LET doReset == ShouldReset(q, t)
        q2 == IF found # {} THEN AddTime(q, TickSeconds) ELSE q
        exceeded == IsLimitExceeded(q2, cfg)
        lim == ConsumeLimitNotification(q2, cfg)
        warn == ConsumeWarningNotifications(q2, cfg)
        q3 == IF exceeded THEN lim.q ELSE warn.q
    IN  [reset |-> doReset,
         exceeded |-> exceeded,
         q |-> IF doReset THEN Reset(q3, cfg, t) ELSE q3,
         notified |-> IF exceeded
                      THEN (IF lim.fire THEN "limit" ELSE "none")
                      ELSE IF warn.final THEN "final"
                      ELSE IF warn.first THEN "first"
                      ELSE "none"]

\* Controller.tick as it would be without the else of line 133: the warnings
\* are looked at in every tick, after the limit.
tickSteps_WarnsWhenExceeded(t, found) ==
    LET doReset == ShouldReset(q, t)
        q1 == IF doReset THEN Reset(q, cfg, t) ELSE q
        q2 == IF found # {} THEN AddTime(q1, TickSeconds) ELSE q1
        exceeded == IsLimitExceeded(q2, cfg)
        lim == ConsumeLimitNotification(q2, cfg)
        warn == ConsumeWarningNotifications(IF exceeded THEN lim.q ELSE q2, cfg)
    IN  [reset |-> doReset,
         exceeded |-> exceeded,
         q |-> warn.q,
         notified |-> IF exceeded /\ lim.fire THEN "limit"
                      ELSE IF warn.final THEN "final"
                      ELSE IF warn.first THEN "first"
                      ELSE "none"]

\* Controller.tick as it would be with step 4 (the limit check, lines
\* 120-152) ahead of step 3 (the accrual, lines 112-117).
tickSteps_EnforceBeforeAccrue(t, found) ==
    LET doReset == ShouldReset(q, t)
        q1 == IF doReset THEN Reset(q, cfg, t) ELSE q
        exceeded == IsLimitExceeded(q1, cfg)
        lim == ConsumeLimitNotification(q1, cfg)
        warn == ConsumeWarningNotifications(q1, cfg)
        q2 == IF exceeded THEN lim.q ELSE warn.q
    IN  [reset |-> doReset,
         exceeded |-> exceeded,
         q |-> IF found # {} THEN AddTime(q2, TickSeconds) ELSE q2,
         notified |-> IF exceeded
                      THEN (IF lim.fire THEN "limit" ELSE "none")
                      ELSE IF warn.final THEN "final"
                      ELSE IF warn.first THEN "first"
                      ELSE "none"]

\* Controller.tick as it would be if line 115 ran once per scanned process.
tickSteps_PerProcess(t, found) ==
    LET doReset == ShouldReset(q, t)
        q1 == IF doReset THEN Reset(q, cfg, t) ELSE q
        q2 == AddTime(q1, TickSeconds * Cardinality(found))
        exceeded == IsLimitExceeded(q2, cfg)
        lim == ConsumeLimitNotification(q2, cfg)
        warn == ConsumeWarningNotifications(q2, cfg)
    IN  [reset |-> doReset,
         exceeded |-> exceeded,
         q |-> IF exceeded THEN lim.q ELSE warn.q,
         notified |-> IF exceeded
                      THEN (IF lim.fire THEN "limit" ELSE "none")
                      ELSE IF warn.final THEN "final"
                      ELSE IF warn.first THEN "first"
                      ELSE "none"]

\* Controller.tick up to the persist step, for a tick at time t whose scan
\* returns `found` without an error: the record it leaves, the notification it
\* dispatches, the processes it goes on to terminate.
tickSteps(t, found) ==
    LET doReset == ShouldReset(q, t)
        q1 == IF doReset THEN Reset(q, cfg, t) ELSE q
        q2 == IF found # {} THEN AddTime(q1, TickSeconds) ELSE q1
        exceeded == IsLimitExceeded(q2, cfg)
        lim == ConsumeLimitNotification(q2, cfg)
        warn == ConsumeWarningNotifications(q2, cfg)
    IN  [reset |-> doReset,
         exceeded |-> exceeded,
         q |-> IF exceeded THEN lim.q ELSE warn.q,
         notified |-> IF exceeded
                      THEN (IF lim.fire THEN "limit" ELSE "none")
                      ELSE IF warn.final THEN "final"
                      ELSE IF warn.first THEN "first"
                      ELSE "none"]

SentAfter(s, reset, notified) ==
    LET s1 == IF reset THEN SentAfterReset(s) ELSE s
    IN  [s1 EXCEPT !.limit = @ + Count(notified = "limit"),
                   !.final = @ + Count(notified = "final"),
                   !.first = @ + Count(notified = "first")]

\* A tick whose scan fails, as it would be without the return of line 109:
\* the tick goes on with an empty list of processes.
tickScanFails_NoReturn(dt) ==
    LET t == now + dt
        st == tickSteps(t, {})
    IN  /\ now' = t
        /\ q' = st.q
        /\ sent' = SentAfter(sent, st.reset, st.notified)
        /\ ev' = [NoEvent EXCEPT !.kind = "tick", !.reset = st.reset,
                                 !.scan = "err", !.notified = st.notified]
        /\ UNCHANGED <<cfg, call, lastSaveTime, disk, running, diskFaults,
                       guardVars, muVars, sigChan>>

\* A tick whose scan fails: the reset check has run, nothing else does.
tickScanFails(dt) ==
    LET t == now + dt
        doReset == ShouldReset(q, t)
    IN  /\ now' = t
        /\ q' = IF doReset THEN Reset(q, cfg, t) ELSE q
        /\ sent' = SentAfter(sent, doReset, "none")
        /\ ev' = [NoEvent EXCEPT !.kind = "tick", !.reset = doReset,
                                 !.scan = "err"]
        /\ UNCHANGED <<cfg, call, lastSaveTime, disk, running, diskFaults,
                       guardVars, muVars, sigChan>>

\* A tick whose scan returns `found`, as it would be if a failed notifier
\* call ended the tick: no termination and no save after it.
tickScanned_ReturnsOnError(dt, found) ==
    LET t == now + dt
        st == tickSteps(t, found)
    IN  \E notifyFails \in IF st.notified = "none" THEN {FALSE} ELSE BOOLEAN :
        \E failing \in IF st.exceeded THEN SUBSET found ELSE {{}} :
        LET saves == SaveDue(t, lastSaveTime) /\ ~notifyFails
            kills == st.exceeded /\ ~notifyFails
        IN  \E saveOutcome \in IF saves THEN PossibleSaveOutcomes ELSE {"ok"} :
            /\ now' = t
            /\ q' = st.q
            /\ sent' = SentAfterAddTime(
                          SentAfter(sent, st.reset, st.notified),
                          IF found # {} THEN TickSeconds ELSE 0)
            /\ ev' = [kind |-> "tick", reset |-> st.reset, scan |-> "ok",
                      scanned |-> found, exceeded |-> st.exceeded,
                      notified |-> st.notified, notifyErr |-> notifyFails,
                      terminated |-> IF kills
                                     THEN TerminateTargets(found, failing)
                                     ELSE {},
                      termErr |-> IF kills
                                  THEN TerminateTargets(found, failing)
                                           \cap failing
                                  ELSE {},
                      save |-> IF ~saves THEN "none"
                               ELSE IF saveOutcome = "ok" THEN "ok"
                               ELSE "fail"]
            /\ disk' = IF saves THEN FileAfterSave(disk, st.q, saveOutcome)
                                ELSE disk
            /\ diskFaults' = diskFaults + Count(saves /\ saveOutcome # "ok")
            /\ lastSaveTime' = IF saves /\ saveOutcome = "ok" THEN t
                                                               ELSE lastSaveTime
            /\ UNCHANGED <<cfg, call, running, guardVars, muVars, sigChan>>

\* A tick whose scan returns `found`. The other inputs: whether the notifier
\* call fails, the processes whose TerminateWithRetry fails, how SaveToFile ends.
tickScanned(dt, found) ==
    LET t == now + dt
        st == tickSteps(t, found)
        saves == SaveDue(t, lastSaveTime)
    IN  \E notifyFails \in IF st.notified = "none" THEN {FALSE} ELSE BOOLEAN :
        \E failing \in IF st.exceeded THEN SUBSET found ELSE {{}} :
        \E saveOutcome \in IF saves THEN PossibleSaveOutcomes ELSE {"ok"} :
            /\ now' = t
            /\ q' = st.q
            /\ sent' = SentAfterAddTime(
                          SentAfter(sent, st.reset, st.notified),
                          IF found # {} THEN TickSeconds ELSE 0)
            /\ ev' = [kind |-> "tick", reset |-> st.reset, scan |-> "ok",
                      scanned |-> found, exceeded |-> st.exceeded,
                      notified |-> st.notified, notifyErr |-> notifyFails,
                      terminated |-> IF st.exceeded
                                     THEN TerminateTargets(found, failing)
                                     ELSE {},
                      termErr |-> IF st.exceeded
                                  THEN TerminateTargets(found, failing)
                                           \cap failing
                                  ELSE {},
                      save |-> IF ~saves THEN "none"
                               ELSE IF saveOutcome = "ok" THEN "ok"
                               ELSE "fail"]
            /\ disk' = IF saves THEN FileAfterSave(disk, st.q, saveOutcome)
                                ELSE disk
            /\ diskFaults' = diskFaults + Count(saves /\ saveOutcome # "ok")
            /\ lastSaveTime' = IF saves /\ saveOutcome = "ok" THEN t
                                                               ELSE lastSaveTime
            /\ UNCHANGED <<cfg, call, running, guardVars, muVars, sigChan>>

\* case <-ticker.C: c.tick()
Tick ==
    /\ running
    /\ \E dt \in TickDeltas :
          /\ TickAllowed(dt)
          /\ \/ tickScanFails(dt)
             \/ \E found \in ScanResults : tickScanned(dt, found)
    /\ UNCHANGED loop

\* case sig := <-sigChan: c.cleanup(); return nil
cleanup(saveOutcome) ==
    LET saves == CleanupSaveDue(now, lastSaveTime)
    IN  /\ disk' = IF saves THEN FileAfterSave(disk, q, saveOutcome) ELSE disk
        /\ diskFaults' = diskFaults + Count(saves /\ saveOutcome # "ok")
        /\ ev' = [NoEvent EXCEPT !.kind = "cleanup",
                                 !.save = IF ~saves THEN "none"
                                          ELSE IF saveOutcome = "ok" THEN "ok"
                                          ELSE "fail"]

Shutdown ==
    /\ running
    /\ \E saveOutcome \in PossibleSaveOutcomes : cleanup(saveOutcome)
    /\ running' = FALSE
    /\ UNCHANGED <<now, guardVars, muVars, sigChan, loop, quotaVars, lastSaveTime>>

Next == Tick \/ Shutdown

Spec == Init /\ [][Next]_vars

----------------------------------------------------------------------------
(* The state file: SaveToFile, LoadFromFile and the start of the program *)

\* What something other than SaveToFile may leave at the path of the state
\* file: a file of the older layout without the flag fields, a file with a
\* negative accumulated time, a file without lastResetTime, a file that is
\* not JSON, or no file.
OldLayoutFile ==
    [status |-> "saved",
     rec |-> [accumulatedTime |-> FormatInt(30),
              lastResetTime |-> FormatInt(QuotaStart - 3600),
              nextResetTime |-> FormatInt(QuotaStart + 3600)]]

NegativeTimeFile ==
    [status |-> "saved",
     rec |-> [accumulatedTime |-> FormatInt(-60),
              lastResetTime |-> FormatInt(QuotaStart - 3600),
              nextResetTime |-> FormatInt(QuotaStart + 3600),
              firstWarningNotified |-> FormatBool(TRUE),
              finalWarningNotified |-> FormatBool(FALSE),
              limitNotified |-> FormatBool(FALSE)]]

NoLastResetFile ==
    [status |-> "saved",
     rec |-> [accumulatedTime |-> FormatInt(30),
              nextResetTime |-> FormatInt(QuotaStart + 3600)]]

ForeignFiles ==
    {OldLayoutFile, NegativeTimeFile, NoLastResetFile, BrokenStateFile,
     NoStateFile}

\* The configurations the file is written and read under: a first warning
\* due from the start, and both warnings ahead of the limit.
StoreConfigs ==
    {c \in Configs :
        \/ c.DailyLimit = 1 /\ c.FirstThreshold = 1 /\ c.FinalThreshold = 0
        \/ c.DailyLimit = 2 /\ c.FirstThreshold = 2 /\ c.FinalThreshold = 1}

InitStore ==
    /\ now = QuotaStart
    /\ cfg \in StoreConfigs
    /\ q = NewQuotaState(cfg, now)
    /\ sent = NoneSent
    /\ call = [op |-> "NewQuotaState", recv |-> q, ret |-> <<>>]
    /\ GuardIdle
    /\ CtlIdle

\* q.SaveToFile()
CallSaveToFile(outcome) ==
    /\ outcome \in PossibleSaveOutcomes
    /\ disk' = FileAfterSave(disk, q, outcome)
    /\ diskFaults' = diskFaults + Count(outcome # "ok")
    /\ call' = [op |-> "SaveToFile", recv |-> q,
                ret |-> <<IF outcome = "ok" THEN "nil" ELSE "write">>]
    /\ UNCHANGED <<now, cfg, q, sent, guardVars, muVars, sigChan, loop, lastSaveTime, running, ev>>

\* quota.LoadFromFile(cfg)
CallLoadFromFile ==
    LET loaded == LoadFromFile(disk)
    IN  /\ call' = [op |-> "LoadFromFile", recv |-> q,
                    ret |-> <<loaded.state, loaded.err>>]
        /\ UNCHANGED <<now, cfg, q, sent, guardVars, ctlVars, muVars, sigChan, loop>>

\* Something else writes or deletes the state file.
WriteStateFile(f) ==
    /\ disk # f
    /\ disk' = f
    /\ call' = [op |-> "WriteFile", recv |-> q, ret |-> <<>>]
    /\ UNCHANGED <<now, cfg, q, sent, guardVars, muVars, sigChan, loop, lastSaveTime, running,
                   diskFaults, ev>>

\* The program starts again: runStart chooses the record of the new process.
Start ==
    /\ q' = runStart(disk, cfg, now)
    /\ sent' = SentAfterAddTime(NoneSent, q'.AccumulatedTime)
    /\ call' = [op |-> "runStart", recv |-> q, ret |-> <<>>]
    /\ UNCHANGED <<now, cfg, guardVars, ctlVars, muVars, sigChan, loop>>

NextStore ==
    \/ \E s \in AddAmounts : CallAddTime(s)
    \/ CallConsumeWarningNotifications
    \/ CallConsumeLimitNotification
    \/ AdvanceQuotaClock(1)
    \/ \E o \in SaveOutcomes : CallSaveToFile(o)
    \/ CallLoadFromFile
    \/ \E f \in ForeignFiles : WriteStateFile(f)
    \/ Start

SpecStore == InitStore /\ [][NextStore]_vars

----------------------------------------------------------------------------
(* The control loop across restarts of the program *)

\* The process starts with the record of the state file the run before it
\* left, or without a state file.
InitRestart ==
    /\ now = CtlStart
    /\ cfg \in CtlConfigs
    /\ \E a \in StartSeconds(cfg) :
          /\ disk \in {[status |-> "saved",
                        rec |-> MarshalIndent(
                                   AddTime(NewQuotaState(cfg, now), a))]}
                         \cup (IF a = 0 THEN {NoStateFile} ELSE {})
          /\ sent = SentAfterAddTime(NoneSent, a)
    /\ q = runStart(disk, cfg, now)
    /\ call = [op |-> "runStart", recv |-> q,
               ret |-> <<LoadFromFile(disk).err>>]
    /\ lastSaveTime = now
    /\ running = TRUE
    /\ diskFaults = 0
    /\ ev = NoEvent
    /\ GuardIdle

\* The process dies between two ticks: no cleanup runs, the record in memory
\* is lost and the state file stays as the last save left it.
Crash ==
    /\ running
    /\ running' = FALSE
    /\ ev' = [NoEvent EXCEPT !.kind = "crash"]
    /\ UNCHANGED <<now, guardVars, muVars, sigChan, loop, quotaVars, lastSaveTime, disk, diskFaults>>

\* The program is started again a tick interval later: runStart, then
\* NewController (lastSaveTime: time.Now()).
StartAgain ==
    /\ ~running
    /\ now' = now + TickSeconds
    /\ q' = runStart(disk, cfg, now')
    /\ call' = [op |-> "runStart", recv |-> q,
                ret |-> <<LoadFromFile(disk).err>>]
    /\ lastSaveTime' = now'
    /\ running' = TRUE
    /\ ev' = NoEvent
    /\ UNCHANGED <<cfg, sent, disk, diskFaults, guardVars, muVars, sigChan, loop>>

\* The clock of this specification stays within RestartTicks tick intervals.
RestartBudget == now' <= CtlStart + RestartTicks * TickSeconds

NextRestart ==
    \/ Tick /\ RestartBudget
    \/ Crash
    \/ Shutdown
    \/ StartAgain /\ RestartBudget

SpecRestart == InitRestart /\ [][NextRestart]_vars

\* The program starts on the day after its last run: the state file holds
\* the record of that run, at or above the limit, with whatever flags the run
\* left set, and a reset time that has passed.
InitStale ==
    /\ now = CtlStart
    /\ cfg \in CtlConfigs
    /\ \E over \in 0 .. 1, first \in BOOLEAN, final \in BOOLEAN,
          limit \in BOOLEAN :
          disk = [status |-> "saved",
                  rec |-> MarshalIndent(
                      [AddTime(NewQuotaState(cfg, now - DaySeconds),
                               cfg.DailyLimit * MinuteSeconds
                                   + over * TickSeconds)
                         EXCEPT !.FirstWarningNotified = first,
                                !.FinalWarningNotified = final,
                                !.LimitNotified = limit])]
    /\ sent = NoneSent
    /\ q = runStart(disk, cfg, now)
    /\ call = [op |-> "runStart", recv |-> q,
               ret |-> <<LoadFromFile(disk).err>>]
    /\ lastSaveTime = now
    /\ running = TRUE
    /\ diskFaults = 0
    /\ ev = NoEvent
    /\ GuardIdle

SpecStale == InitStale /\ [][NextRestart]_vars

-----------------------------------------------------------------------------
(* The life of an enforcement instance: runStart of the main program.       *)
(* Process Instance runs runStart from the guard to its return: Acquire,    *)
(* the state file, the loop, cleanup, the deferred Release. The other       *)
(* process is started beside it and is followed up to its read of the state *)
(* file.                                                                    *)

LifeTicks == 2
Instance == 1

\* runStart reaches singleinstance.Acquire (once per process).
LifeStart(p) ==
    /\ res[p] = "none"
    /\ guard[p] = "none"
    /\ BeginAcquire(p)

\* Acquire has returned a guard to the instance: quota.LoadFromFile, Validate
\* or NewQuotaState, NewController, and Run is entered.
StartInstance ==
    /\ res[Instance] = "guard"
    /\ guard[Instance] = "held"
    /\ ~running
    /\ ev = NoEvent
    /\ q' = runStart(disk, cfg, now)
    /\ call' = [op |-> "runStart", recv |-> q', ret |-> <<Instance>>]
    /\ lastSaveTime' = now
    /\ running' = TRUE
    /\ UNCHANGED <<now, cfg, sent, disk, diskFaults, ev, guardVars, muVars,
                   sigChan, loop>>

\* Acquire has returned a guard to another process p: it reads the state file.
OtherLoads(p) ==
    /\ p # Instance
    /\ alive[p]
    /\ res[p] = "guard"
    /\ guard[p] = "held"
    /\ call' = [op |-> "runStart", recv |-> runStart(disk, cfg, now),
                ret |-> <<p>>]
    /\ call' # call
    /\ UNCHANGED <<now, cfg, q, sent, ctlVars, guardVars, muVars, sigChan,
                   loop>>

\* Run has returned: runStart returns and the deferred guard.Release() runs.
ExitInstance ==
    /\ ~running
    /\ ev.kind = "cleanup"
    /\ Release(Instance)

LifeBudget == (now' - CtlStart) % DaySeconds <= LifeTicks * TickSeconds

InitLife ==
    /\ now = CtlStart
    /\ cfg \in StoreConfigs
    /\ \E a \in StartSeconds(cfg) :
          /\ disk \in {[status |-> "saved",
                        rec |-> MarshalIndent(
                                   AddTime(NewQuotaState(cfg, now), a))]}
                         \cup (IF a = 0 THEN {NoStateFile} ELSE {})
          /\ sent = SentAfterAddTime(NoneSent, a)
    /\ q = NewQuotaState(cfg, now)
    /\ call = [op |-> "NewQuotaState", recv |-> q, ret |-> <<>>]
    /\ lastSaveTime = 0
    /\ running = FALSE
    /\ diskFaults = 0
    /\ ev = NoEvent
    /\ GuardIdle

NextLife ==
    \/ \E p \in Procs : LifeStart(p)
    \/ \E p \in Procs : Create(p)
    \/ \E p \in Procs : Write(p)
    \/ \E p \in Procs : Read(p)
    \/ \E p \in Procs : Probe(p)
    \/ \E p \in Procs : Remove(p)
    \/ StartInstance
    \/ Tick /\ LifeBudget
    \/ Shutdown
    \/ ExitInstance
    \/ \E p \in Procs : OtherLoads(p)

SpecLife == InitLife /\ [][NextLife]_vars

----------------------------------------------------------------------------
(* pkg/quota: the methods of QuotaState, statement by statement, under q.mu *)

MutatingMethods ==
    {"AddTime", "Reset", "ConsumeWarningNotifications",
     "ConsumeLimitNotification"}
ReadingMethods ==
    {"GetAccumulatedMinutes", "GetRemainingMinutes", "IsLimitExceeded",
     "TimeUntilNextReset", "SaveToFile"}

\* The fields a reading method reads, in the order it reads them
\* (json.MarshalIndent walks the fields of the struct in their order).
FieldsRead(op) ==
    IF op = "SaveToFile"
    THEN <<"AccumulatedTime", "LastResetTime", "NextResetTime",
           "FirstWarningNotified", "FinalWarningNotified", "LimitNotified">>
    ELSE IF op = "TimeUntilNextReset" THEN <<"NextResetTime">>
    ELSE <<"AccumulatedTime">>

\* The assignments of a mutating method between Lock and Unlock.
Statements(op) == IF op = "Reset" THEN 6 ELSE 1

\* The record after the assignment `at` of the method; arg is the seconds of
\* AddTime, or the time.Now() that Reset took at its first line.
AfterStatement(op, at, r, arg) ==
    IF op = "AddTime" THEN AddTime(r, arg)
    ELSE IF op = "ConsumeWarningNotifications"
    THEN ConsumeWarningNotifications(r, cfg).q
    ELSE IF op = "ConsumeLimitNotification"
    THEN ConsumeLimitNotification(r, cfg).q
    ELSE IF at = 1 THEN [r EXCEPT !.AccumulatedTime = 0]
    ELSE IF at = 2 THEN [r EXCEPT !.LastResetTime = arg]
    ELSE IF at = 3 THEN [r EXCEPT !.FirstWarningNotified = FALSE]
    ELSE IF at = 4 THEN [r EXCEPT !.FinalWarningNotified = FALSE]
    ELSE IF at = 5 THEN [r EXCEPT !.LimitNotified = FALSE]
    ELSE [r EXCEPT !.NextResetTime = NextResetFrom(cfg, arg)]

\* q.mu.Lock() as it would be if it never waited.
CanLock_NoWait == TRUE

\* q.mu.Lock() returns once no goroutine holds the mutex.
CanLock == mu = "free"

\* What the loop's goroutine calls, and with which argument.
TickCalls ==
    {[op |-> "AddTime", arg |-> MinuteSeconds],
     [op |-> "Reset", arg |-> now],
     [op |-> "ConsumeWarningNotifications", arg |-> 0],
     [op |-> "ConsumeLimitNotification", arg |-> 0]}

\* q.mu.Lock() at the first line of method c.op, called by goroutine t.
Enter(t, c) ==
    /\ thr[t].op = "none"
    /\ c.op = "AddTime" =>
          q.AccumulatedTime + c.arg <= (cfg.DailyLimit + QuotaOver) * MinuteSeconds
    /\ CanLock
    /\ mu' = t
    /\ thr' = [thr EXCEPT ![t] = [op |-> c.op, at |-> 1, arg |-> c.arg,
                                  seen |-> NoneRead]]
    /\ UNCHANGED <<sigChan, loop, now, guardVars, quotaVars, ctlVars>>

\* The next assignment of the mutating method t is in.
Mutate(t) ==
    /\ thr[t].op \in MutatingMethods
    /\ thr[t].at <= Statements(thr[t].op)
    /\ q' = AfterStatement(thr[t].op, thr[t].at, q, thr[t].arg)
    /\ thr' = [thr EXCEPT ![t].at = @ + 1]
    /\ UNCHANGED <<sigChan, loop, now, mu, cfg, sent, call, guardVars, ctlVars>>

\* The next field read of the reading method t is in.
ReadField(t) ==
    /\ thr[t].op \in ReadingMethods
    /\ thr[t].at <= Len(FieldsRead(thr[t].op))
    /\ LET f == FieldsRead(thr[t].op)[thr[t].at]
       IN  thr' = [thr EXCEPT
                     ![t].at = @ + 1,
                     ![t].seen = [g \in DOMAIN @ \cup {f} |->
                                     IF g = f THEN q[f] ELSE @[g]]]
    /\ UNCHANGED <<sigChan, loop, now, mu, guardVars, quotaVars, ctlVars>>

\* The method returns: the deferred q.mu.Unlock(). SaveToFile has written
\* what it read.
Leave(t) ==
    /\ thr[t].op # "none"
    /\ thr[t].at > (IF thr[t].op \in MutatingMethods
                    THEN Statements(thr[t].op)
                    ELSE Len(FieldsRead(thr[t].op)))
    /\ mu' = "free"
    /\ thr' = [thr EXCEPT ![t] = NoMethod]
    /\ disk' = IF thr[t].op = "SaveToFile"
               THEN [status |-> "saved", rec |-> MarshalIndent(thr[t].seen)]
               ELSE disk
    /\ UNCHANGED <<sigChan, loop, now, guardVars, quotaVars, lastSaveTime, running,
                   diskFaults, ev>>

AdvanceMutexClock ==
    /\ now - QuotaStart < QuotaTicks
    /\ now' = now + 1
    /\ UNCHANGED <<guardVars, quotaVars, ctlVars, muVars, sigChan, loop>>

InitMutex ==
    /\ now = QuotaStart
    /\ cfg \in StoreConfigs
    /\ q = NewQuotaState(cfg, now)
    /\ sent = NoneSent
    /\ call = [op |-> "NewQuotaState", recv |-> q, ret |-> <<>>]
    /\ GuardIdle
    /\ CtlIdle

NextMutex ==
    \/ \E c \in TickCalls : Enter("tick", c)
    \/ \E m \in ReadingMethods : Enter("query", [op |-> m, arg |-> 0])
    \/ \E t \in Threads : Mutate(t)
    \/ \E t \in Threads : ReadField(t)
    \/ \E t \in Threads : Leave(t)
    \/ AdvanceMutexClock

SpecMutex == InitMutex /\ [][NextMutex]_vars

-----------------------------------------------------------------------------
(* The run loop and the shutdown signal: internal/controller.go Run.        *)
(* The loop selects between the ticker and sigChan. A signal the runtime    *)
(* relays stays in sigChan (room for one) until the loop receives it; a     *)
(* tick runs to its end before the loop selects again.                      *)

RunTicks == 3

\* signal.Notify(sigChan, syscall.SIGINT, syscall.SIGTERM)
Signals == {"SIGINT", "SIGTERM"}

\* The runtime relays a signal without blocking: into the room sigChan has,
\* or nowhere.
Deliver ==
    /\ running
    /\ \E s \in Signals :
          sigChan' = IF Len(sigChan) < 1
                     THEN Append(sigChan, [sig |-> s, at |-> now])
                     ELSE sigChan
    /\ UNCHANGED <<now, guardVars, quotaVars, ctlVars, muVars, loop>>

\* The select as it would be without the case for sigChan.
Receivable_NoSignalCase(ch) == FALSE

\* case sig := <-sigChan can proceed.
Receivable(ch) == ch # NoSignal

\* case sig := <-sigChan: c.cleanup(); return nil
Receive ==
    /\ running
    /\ loop.at = "select"
    /\ Receivable(sigChan)
    /\ sigChan' = Tail(sigChan)
    /\ \E saveOutcome \in PossibleSaveOutcomes : cleanup(saveOutcome)
    /\ running' = FALSE
    /\ UNCHANGED <<now, guardVars, muVars, quotaVars, lastSaveTime, loop>>

RunBudget == now' <= CtlStart + RunTicks * TickSeconds

NextRun == (Tick /\ RunBudget) \/ Deliver \/ Receive

\* A select with several cases ready picks one of them at random, so a case
\* that stays ready is not passed over for ever.
SpecRun == Init /\ [][NextRun]_vars /\ WF_vars(Receive)

-----------------------------------------------------------------------------
(* The run loop with ticks that take time: internal/controller.go Run.      *)
(* The ticker goes on firing while a call of tick is in flight (ticker.C    *)
(* keeps one tick, further ones are dropped), and signals may arrive. The   *)
(* clock values a tick reads are taken as one: the time at which it returns.*)

LoopTicks == 3

\* The ticker fires: a tick interval has passed.
Fire ==
    /\ running
    /\ now' = now + TickSeconds
    /\ now' <= CtlStart + LoopTicks * TickSeconds
    /\ loop' = [loop EXCEPT !.tickerC = 1]
    /\ UNCHANGED <<guardVars, quotaVars, ctlVars, muVars, sigChan>>

\* Where Run is after starting a tick, as it would be with `go c.tick()`.
AfterCall_Go == "select"

\* c.tick() is a call: Run is in it until it returns.
AfterCall == "tick"

\* case <-ticker.C: c.tick() is entered
CallTick ==
    /\ running
    /\ loop.at = "select"
    /\ loop.tickerC = 1
    /\ loop' = [at |-> AfterCall, ticks |-> Append(loop.ticks, now),
                tickerC |-> 0]
    /\ UNCHANGED <<now, guardVars, quotaVars, ctlVars, muVars, sigChan>>

\* c.tick() returns, and Run is back at the select
TickReturns ==
    /\ running
    /\ loop.ticks # <<>>
    /\ \/ tickScanFails(0)
       \/ \E found \in ScanResults : tickScanned(0, found)
    /\ loop' = [loop EXCEPT !.at = "select", !.ticks = Tail(@)]

NextLoop == Fire \/ CallTick \/ TickReturns \/ Deliver \/ Receive

SpecLoop == Init /\ [][NextLoop]_vars

-----------------------------------------------------------------------------
(* The loop from a fresh record to the limit: every tick fires, its scan    *)
(* succeeds and returns a tracked process, and no reset falls due.          *)

ProgressLimit == 4
ProgressExtra == 2

\* 0 < finalThreshold < firstThreshold < dailyLimit
ProgressConfigs ==
    {c \in [DailyLimit : 1 .. ProgressLimit,
            FirstThreshold : 1 .. ProgressLimit,
            FinalThreshold : 1 .. ProgressLimit,
            ResetTime : {<<ResetHour, ResetMinute>>}] :
        c.FinalThreshold < c.FirstThreshold /\ c.FirstThreshold < c.DailyLimit}

\* NewQuotaState, NewController.
InitProgress ==
    /\ now = CtlStart
    /\ cfg \in ProgressConfigs
    /\ q = NewQuotaState(cfg, now)
    /\ sent = NoneSent
    /\ call = [op |-> "NewQuotaState", recv |-> q, ret |-> <<>>]
    /\ lastSaveTime = now
    /\ disk = NoStateFile
    /\ running = TRUE
    /\ diskFaults = 0
    /\ ev = NoEvent
    /\ GuardIdle

\* The ticks followed: those up to the limit, and a few more.
ProgressBudget ==
    now' <= CtlStart + TickSeconds
               * ((cfg.DailyLimit * MinuteSeconds) \div TickSeconds
                    + ProgressExtra)

\* case <-ticker.C: c.tick(), with a scan that returns a tracked process
TickWithProcess ==
    /\ running
    /\ \E found \in ScanResults \ {{}} : tickScanned(TickSeconds, found)
    /\ ProgressBudget
    /\ UNCHANGED loop

\* The ticker fires every tick interval and the loop takes each tick.
SpecProgress ==
    InitProgress /\ [][TickWithProcess]_vars /\ WF_vars(TickWithProcess)

----------------------------------------------------------------------------
(* Claims about the guard *)

Holders == {p \in Procs : alive[p] /\ guard[p] = "held"}

\* h holds the guard and its marker says so: the marker is the file h created
\* and wrote, h is alive, and the marker is not older than the staleness bound.
HeldBy(h) ==
    /\ alive[h] /\ guard[h] = "held"
    /\ marker = [ino |-> h, pid |-> h, ts |-> marker.ts]
    /\ now - marker.ts <= StaleSeconds

\* C1: at every moment at most one live process holds a guard it has acquired
\* and not yet released, over any sequence of Acquire and Release calls made
\* one after the other, process deaths and passage of time.
C1_AtMostOneHolder == Cardinality(Holders) <= 1

\* C2: of the processes that race through Acquire, at most one is given a
\* guard, whatever the interleaving of their filesystem steps.
C2_OneRacerWins == Cardinality({p \in Procs : res[p] = "guard"}) <= 1

\* p takes a step of its Acquire call.
StepOf(p) == alive'[p] /\ pc[p] # "idle" /\ <<pc[p], attempt[p]>> # <<pc'[p], attempt'[p]>>

\* What the steps of an Acquire by p do while another process holds the guard:
\* the exclusive create collides, the read returns the holder's record, and
\* the check of that record answers ErrAlreadyRunning, leaving the marker as it
\* is (an unexpected I/O error is the only other way out of these steps).
MarkerRecord == [pid |-> marker.pid, ts |-> marker.ts]

RefusedWhileHeld(p) ==
    (StepOf(p) /\ \E h \in Procs \ {p} : HeldBy(h)) =>
        /\ pc[p] = "create" => (pc'[p] = "read" \/ res'[p] = IOError)
        /\ pc[p] = "read" =>
               \/ pc'[p] = "probe" /\ data'[p] = MarkerRecord
               \/ res'[p] = IOError
        /\ (pc[p] = "probe" /\ data[p] = MarkerRecord) =>
               /\ ~Calling(p)' /\ res'[p] = ErrAlreadyRunning
               /\ guard'[p] # "held" /\ marker' = marker

\* What Release by the holder does, and what the next Acquire does after it:
\* the marker is gone, the exclusive create succeeds, the guard is given.
GrantedAfterRelease(p) ==
    /\ (guard[p] = "held" /\ guard'[p] = "released" /\ res'[p] # IOError)
           => marker' = NoFile
    /\ (StepOf(p) /\ pc[p] = "create" /\ marker = NoFile /\ res'[p] # IOError)
           => pc'[p] = "write" /\ marker' = EmptyFile(p)
    /\ (StepOf(p) /\ pc[p] = "write")
           => res'[p] = "guard" /\ guard'[p] = "held"

\* C10: while a process holds the guard (its marker exists, the owner is alive
\* and the marker is not older than 24 hours) every other Acquire fails with
\* ErrAlreadyRunning; once the holder has called Release the next Acquire
\* succeeds.
C10_ExclusiveUntilReleased ==
    [][\A p \in Procs : RefusedWhileHeld(p) /\ GrantedAfterRelease(p)]_vars

\* A second Acquire was refused while the holder's marker is exactly 24 hours old.
C10_Witness ==
    \E p, h \in Procs :
        /\ p # h /\ HeldBy(h) /\ now - marker.ts = StaleSeconds
        /\ ~Calling(p) /\ res[p] = ErrAlreadyRunning

\* A guard was given to a process after another one had released its own.
C10_WitnessAfterRelease ==
    \E p, h \in Procs :
        p # h /\ guard[h] = "released" /\ res[h] = "released" /\ HeldBy(p)

\* The record p read says the marker is abandoned: its owner is not alive, or
\* it is more than 24 hours old.
Abandoned(d) ==
    /\ d.pid > 0
    /\ \/ ~(d.pid \in Procs /\ alive[d.pid])
       \/ now - d.ts > StaleSeconds

\* C11: when a marker exists whose owner is not alive or whose timestamp is
\* more than 24 hours old, an Acquire with no competing acquirer deletes it,
\* retries the exclusive create once and returns a guard whose marker records
\* the caller's pid and the acquisition time (an unexpected I/O error is the
\* only other way out of these steps).
C11_Step ==
    \A p \in Procs : StepOf(p) =>
        /\ attempt'[p] < MaxAttempts
        /\ (pc[p] = "probe" /\ data[p] = MarkerRecord /\ Abandoned(data[p]))
              => pc'[p] = "remove" /\ marker' = marker
        /\ (pc[p] = "remove" /\ attempt[p] = 0) =>
              \/ marker' = NoFile /\ pc'[p] = "create" /\ attempt'[p] = 1
              \/ res'[p] = IOError
        /\ (pc[p] = "create" /\ attempt[p] = 1) =>
              \/ marker' = EmptyFile(p) /\ pc'[p] = "write"
              \/ res'[p] = IOError
        /\ pc[p] = "write" =>
              /\ marker' = [ino |-> p, pid |-> p, ts |-> now]
              /\ res'[p] = "guard" /\ guard'[p] = "held" /\ ~Calling(p)'

C11_ReclaimsAbandoned == [][C11_Step]_vars

\* A marker left by a process that has died was deleted and the retried create
\* succeeded: the caller is about to write its pid and the time.
C11_Witness ==
    \E p \in Procs :
        /\ pc[p] = "write" /\ attempt[p] = 1 /\ marker = EmptyFile(p)
        /\ \E o \in Procs \ {p} : ~alive[o] /\ res[o] = "guard"

\* The same for a marker more than 24 hours old whose owner is alive.
C11_WitnessOld ==
    \E p \in Procs :
        /\ pc[p] = "write" /\ attempt[p] = 1 /\ marker = EmptyFile(p)
        /\ \E o \in Procs \ {p} : alive[o] /\ guard[o] = "held"

\* C12: Release may be called any number of times on the same guard; a call
\* returns no error whether the marker is present or already gone, and after
\* it the marker is absent (the removal of a marker that is there can fail
\* with an unexpected I/O error, which is returned and leaves the marker).
C12_Step ==
    \A p \in Procs :
        (guard[p] # "none" /\ guard'[p] # guard[p] /\ guard'[p] # "held"
            /\ guard'[p] # "none") =>
                /\ res'[p] \in {"released", IOError}
                /\ res'[p] = "released" => marker' = NoFile
                /\ marker = NoFile => res'[p] = "released"
                /\ res'[p] = IOError => marker' = marker

C12_ReleaseIdempotent == [][C12_Step]_vars

\* Release was called again on a released guard, found the marker gone and
\* returned no error.
C12_Witness ==
    \E p \in Procs :
        guard[p] = "released again" /\ res[p] = "released" /\ marker = NoFile

----------------------------------------------------------------------------
(* Claims about the quota record *)

\* remaining = max(0, dailyLimit - accumulatedSeconds div 60)
RemainingOf(r) ==
    IF cfg.DailyLimit - (r.AccumulatedTime \div MinuteSeconds) < 0 THEN 0
    ELSE cfg.DailyLimit - (r.AccumulatedTime \div MinuteSeconds)

ExceededIn(r) == r.AccumulatedTime \div MinuteSeconds >= cfg.DailyLimit

\* C4: within one reset cycle the first warning is answered (in a tick:
\* dispatched) at most once and the final warning at most once, whatever the
\* order of the calls: a flag that goes from false to true does so with the one
\* answer of its cycle.
C4_Step ==
    /\ sent'.first <= 1 /\ sent'.final <= 1
    /\ (~q.FirstWarningNotified /\ q'.FirstWarningNotified) => sent'.first = 1
    /\ (~q.FinalWarningNotified /\ q'.FinalWarningNotified) => sent'.final = 1

C4_WarningsAtMostOnce == [][C4_Step]_vars

\* Both warnings were answered in this cycle, and a further call in the final
\* band answered neither.
C4_Witness ==
    /\ call.op = "ConsumeWarningNotifications"
    /\ call.ret = <<FALSE, FALSE>>
    /\ RemainingOf(call.recv) <= cfg.FinalThreshold
    /\ sent.first = 1 /\ sent.final = 1

\* C7: Reset, called in any state of the record, leaves the accumulated
\* seconds at 0 and the three flags false.
C7_ResetClears ==
    call.op = "Reset" =>
        /\ q.AccumulatedTime = 0
        /\ ~q.FirstWarningNotified
        /\ ~q.FinalWarningNotified
        /\ ~q.LimitNotified

\* Reset was called on a record with time accumulated and all three flags set.
C7_Witness ==
    /\ call.op = "Reset"
    /\ call.recv.AccumulatedTime > 0
    /\ call.recv.FirstWarningNotified
    /\ call.recv.FinalWarningNotified
    /\ call.recv.LimitNotified
    /\ q.AccumulatedTime = 0

\* C9: ConsumeWarningNotifications answers final iff remaining <= finalThreshold
\* and the final flag was false, answers first iff finalThreshold < remaining
\* <= firstThreshold and the first flag was false, never answers both, and with
\* remaining <= finalThreshold neither answers nor sets the first flag.
C9_WarningTieBreak ==
    call.op = "ConsumeWarningNotifications" =>
        LET remaining == RemainingOf(call.recv)
            first == call.ret[1]
            final == call.ret[2]
        IN  /\ final <=> (remaining <= cfg.FinalThreshold
                            /\ ~call.recv.FinalWarningNotified)
            /\ first <=> (cfg.FinalThreshold < remaining
                            /\ remaining <= cfg.FirstThreshold
                            /\ ~call.recv.FirstWarningNotified)
            /\ ~(first /\ final)
            /\ remaining <= cfg.FinalThreshold =>
                   /\ ~first
                   /\ q.FirstWarningNotified = call.recv.FirstWarningNotified

\* In the final band, with the first warning never given, the call answered
\* the final warning alone and left the first flag unset.
C9_Witness ==
    /\ call.op = "ConsumeWarningNotifications"
    /\ call.ret = <<FALSE, TRUE>>
    /\ RemainingOf(call.recv) <= cfg.FinalThreshold
    /\ cfg.FinalThreshold < cfg.FirstThreshold
    /\ ~call.recv.FirstWarningNotified
    /\ ~q.FirstWarningNotified /\ q.FinalWarningNotified

\* C13: between two resets the accumulated seconds never decrease and equal
\* the sum of the seconds passed to AddTime since the last reset, with no
\* upper clamp: AddTime(a) then AddTime(b) leaves what AddTime(a+b) leaves,
\* also beyond the daily limit.
C13_Step ==
    /\ q'.AccumulatedTime = sent'.added
    /\ q'.AccumulatedTime < q.AccumulatedTime =>
           (call'.op = "Reset" \/ ev'.reset)
    /\ \A a, b \in AddAmounts :
           AddTime(AddTime(q', a), b) = AddTime(q', a + b)
    /\ (call'.op = "AddTime" /\ call' # call) =>
           q'.AccumulatedTime = call'.recv.AccumulatedTime + call'.ret[1]

C13_AccrualIsSum == [][C13_Step]_vars

\* Time was added to a record already at the limit, after an earlier reset,
\* and the record holds all of it.
C13_Witness ==
    /\ call.op = "AddTime" /\ call.ret[1] > 0
    /\ call.recv.AccumulatedTime >= cfg.DailyLimit * MinuteSeconds
    /\ q.AccumulatedTime > cfg.DailyLimit * MinuteSeconds
    /\ q.LastResetTime > QuotaStart

\* The record with its accumulated seconds replaced by a.
WithSeconds(a) == [q EXCEPT !.AccumulatedTime = a]

\* C14: for every accumulatedSeconds >= 0 and dailyLimit > 0, IsLimitExceeded
\* is true iff accumulatedSeconds div 60 >= dailyLimit (seconds short of a full
\* minute do not count) and GetRemainingMinutes is max(0, dailyLimit -
\* accumulatedSeconds div 60), never negative.
C14_MinutesArithmetic ==
    \A a \in 0 .. (cfg.DailyLimit + QuotaOver + 1) * MinuteSeconds :
        LET minutes == a \div MinuteSeconds
            left == cfg.DailyLimit - minutes
        IN  /\ IsLimitExceeded(WithSeconds(a), cfg) <=> minutes >= cfg.DailyLimit
            /\ GetRemainingMinutes(WithSeconds(a), cfg)
                   = (IF left > 0 THEN left ELSE 0)
            /\ GetRemainingMinutes(WithSeconds(a), cfg) >= 0

\* Half a minute short of the limit: not exceeded, one minute remains; and a
\* record beyond the limit by a minute and more has none.
C14_Witness ==
    /\ q.AccumulatedTime % MinuteSeconds # 0
    /\ q.AccumulatedTime \div MinuteSeconds = cfg.DailyLimit - 1
    /\ ~IsLimitExceeded(q, cfg)
    /\ GetRemainingMinutes(q, cfg) = 1
    /\ call.op = "AddTime"

C14_WitnessBeyond ==
    /\ q.AccumulatedTime >= (cfg.DailyLimit + 1) * MinuteSeconds
    /\ IsLimitExceeded(q, cfg)
    /\ GetRemainingMinutes(q, cfg) = 0

\* C15: ShouldReset returns true exactly when the current time is at or
\* after nextResetEpoch (true at the instant equal to nextResetEpoch, false
\* at any earlier instant), and the call leaves every field of the record
\* unchanged.
C15_Step ==
    (call'.op = "ShouldReset" /\ call' # call) =>
        /\ call'.ret[1] <=> (now >= q.NextResetTime)
        /\ q' = q

C15_ShouldResetAtOrAfter == [][C15_Step]_vars

\* C16: the record's nextResetEpoch is the earliest instant strictly later
\* than its lastResetEpoch whose time of day is the configured reset time
\* (at most one day ahead), so nextResetEpoch > lastResetEpoch in every
\* reachable state.
C16_NextResetStrictlyLater ==
    /\ q.NextResetTime > q.LastResetTime
    /\ q.NextResetTime % DaySeconds = ResetOffset(cfg)
    /\ q.NextResetTime - q.LastResetTime <= DaySeconds

----------------------------------------------------------------------------
(* Claims about the state file *)

\* C17: saving a record and then loading it from the same path yields a
\* record with the same accumulated seconds, last and next reset times and
\* the same three flags.
C17_Step ==
    (/\ call.op = "SaveToFile" /\ call.ret = <<"nil">>
     /\ call'.op = "LoadFromFile") =>
        call'.ret = <<call.recv, "nil">>

C17_SaveLoadRoundTrip == [][C17_Step]_vars

\* A record with time accrued and a flag set was saved and loaded back.
C17_Witness ==
    /\ call.op = "LoadFromFile" /\ call.ret = <<q, "nil">>
    /\ q.AccumulatedTime = 30 /\ q.FirstWarningNotified
    /\ "firstWarningNotified" \in DOMAIN disk.rec

\* C18: loading a file of the older layout, which holds accumulatedTime,
\* lastResetTime and nextResetTime but none of the flag fields, succeeds,
\* keeps the three values and gives a record whose three flags are false.
C18_OldLayoutLoads ==
    (call.op = "LoadFromFile" /\ disk = OldLayoutFile) =>
        call.ret = <<[AccumulatedTime |-> 30,
                      LastResetTime |-> QuotaStart - 3600,
                      NextResetTime |-> QuotaStart + 3600,
                      FirstWarningNotified |-> FALSE,
                      FinalWarningNotified |-> FALSE,
                      LimitNotified |-> FALSE], "nil">>

\* A file of the older layout was loaded by a process whose own record has
\* a flag set.
C18_Witness ==
    /\ call.op = "LoadFromFile" /\ disk = OldLayoutFile
    /\ DOMAIN disk.rec = {"accumulatedTime", "lastResetTime", "nextResetTime"}
    /\ call.ret[2] = "nil"
    /\ q.FirstWarningNotified

\* C19: loading from a path that has no state file is not an error (the
\* result has no error value), whereas loading a file that cannot be parsed
\* returns an error, so the two cases can be told apart.
C19_AbsentIsNotAnError ==
    call.op = "LoadFromFile" =>
        /\ disk.status = "absent" => call.ret[2] = "nil"
        /\ disk.status = "corrupt" => call.ret[2] # "nil"

\* C20: a loaded record that fails Validate is never handed to the loop: the
\* start replaces it by a fresh record, and it replaces a missing or
\* unparsable state file the same way.
C20_Step ==
    (call'.op = "runStart" /\ (call' # call \/ q' # q)) =>
        /\ Validate(q')
        /\ (disk.status # "saved" \/ ~Validate(Unmarshal(disk.rec))) =>
              q' = NewQuotaState(cfg, now)

C20_InvalidStateReplaced == [][C20_Step]_vars

\* The program started over a file whose record Validate rejects, and runs
\* with a fresh record.
C20_Witness ==
    /\ call.op = "runStart" /\ disk = NegativeTimeFile
    /\ ~Validate(Unmarshal(disk.rec))
    /\ q.AccumulatedTime = 0 /\ q.LastResetTime = now
    /\ call.recv.AccumulatedTime > 0

\* The program started over a file that is not JSON.
C20_WitnessUnparsable ==
    /\ call.op = "runStart" /\ disk = BrokenStateFile
    /\ q = NewQuotaState(cfg, now)
    /\ call.recv.AccumulatedTime > 0

----------------------------------------------------------------------------
(* Claims about the control loop *)

\* A step of the loop that is a tick whose scan succeeded.
TickStep == now' # now /\ ev'.kind = "tick" /\ ev'.scan = "ok"

\* The tick of this step began after the stored reset time: it resets first.
ResetsFirst == now' > q.NextResetTime

\* C3: in every reset cycle in which the limit becomes exceeded the limit
\* notification is dispatched exactly once, on the first tick whose enforce
\* step finds the limit exceeded, and not on later ticks of the cycle;
\* ConsumeLimitNotification answers true on that one call only.
C3_Step ==
    /\ sent'.limit <= 1
    /\ TickStep =>
          (ev'.notified = "limit" <=>
              ExceededIn(q') /\ (ResetsFirst \/ ~q.LimitNotified))
    /\ (call' # call /\ call'.op = "ConsumeLimitNotification") =>
          (call'.ret[1] <=>
              ExceededIn(call'.recv) /\ ~call'.recv.LimitNotified)

C3_LimitNotifiedOnce == [][C3_Step]_vars

\* A later tick of the cycle found the limit still exceeded and dispatched nothing.
C3_Witness ==
    /\ ev.kind = "tick" /\ ev.scan = "ok"
    /\ ExceededIn(q)
    /\ ev.notified = "none"
    /\ sent.limit = 1

\* C5: in every tick in which the limit is exceeded after the accrual,
\* TerminateWithRetry is attempted once for each process the scan returned,
\* whether or not the notification was dispatched or failed and even if
\* terminating another process failed; so again on every later such tick.
C5_Step == (TickStep /\ ExceededIn(q')) => ev'.terminated = ev'.scanned

C5_TerminateEveryScanned == [][C5_Step]_vars

\* A later exceeded tick (nothing left to notify) went through both scanned
\* processes although terminating the first one failed.
C5_Witness ==
    /\ ev.kind = "tick" /\ ev.scan = "ok" /\ ExceededIn(q)
    /\ Cardinality(ev.scanned) = NPids
    /\ 1 \in ev.termErr
    /\ ev.terminated = ev.scanned
    /\ ev.notified = "none" /\ sent.limit = 1

\* A tick that failed to show the limit notification still terminated.
C5_WitnessNotifyFailed ==
    /\ ev.kind = "tick" /\ ev.notified = "limit" /\ ev.notifyErr
    /\ ev.scanned # {} /\ ev.terminated = ev.scanned

\* C6: on a shutdown signal the loop performs one final save whatever the time
\* since the last successful save, and after it the state file holds the
\* accumulated seconds and flags of the record in memory.
C6_Step ==
    (running /\ ~running') =>
        /\ ev'.kind = "cleanup" /\ ev'.save # "none"
        /\ ev'.save = "ok" =>
              disk'.status = "saved" /\ Unmarshal(disk'.rec) = q'
        /\ q' = q

C6_FinalSave == [][C6_Step]_vars

\* The loop was shut down less than a save interval after it started, with
\* time accrued that no periodic save had written, and the file holds it.
C6_Witness ==
    /\ ~running /\ ev.kind = "cleanup" /\ ev.save = "ok"
    /\ now - lastSaveTime < SaveInterval
    /\ q.AccumulatedTime > 0
    /\ disk.status = "saved" /\ Unmarshal(disk.rec) = q

\* After a tick whose scan succeeded, whatever this cycle has reached has been
\* dispatched once in this cycle: the limit if it is exceeded, else the final
\* warning in its band, else the first warning in its band.
Rearmed ==
    (ev.kind = "tick" /\ ev.scan = "ok") =>
        IF ExceededIn(q) THEN sent.limit = 1
        ELSE IF RemainingOf(q) <= cfg.FinalThreshold THEN sent.final = 1
        ELSE IF RemainingOf(q) <= cfg.FirstThreshold THEN sent.first = 1
        ELSE TRUE

\* C8: the one-shot flags are cleared only by Reset, and a Reset re-arms the
\* three notifications: in the cycle after it a warning threshold reached and
\* the limit exceeded dispatch again, whatever was dispatched the cycle before.
C8_Step ==
    /\ (\/ q.FirstWarningNotified /\ ~q'.FirstWarningNotified
        \/ q.FinalWarningNotified /\ ~q'.FinalWarningNotified
        \/ q.LimitNotified /\ ~q'.LimitNotified)
           => (ResetsFirst /\ q'.LastResetTime = now')
    /\ Rearmed'

C8_ClearedOnlyByReset == [][C8_Step]_vars

\* The final warning and the limit notification were dispatched in the cycle
\* before the last reset and again in the cycle after it.
C8_Witness ==
    /\ sent.prevFinal = 1 /\ sent.prevLimit = 1
    /\ sent.final = 1 /\ sent.limit = 1

\* The same for the first warning.
C8_WitnessFirst ==
    /\ sent.prevFirst = 1 /\ sent.prevLimit = 1
    /\ sent.first = 1 /\ sent.limit = 1

\* C21: a tick whose scan succeeds adds exactly the tick interval to the
\* accumulated seconds when the scan returns one or more processes, however
\* many, and adds nothing when the scan returns none.
C21_Step ==
    TickStep =>
        q'.AccumulatedTime =
            (IF ResetsFirst THEN 0 ELSE q.AccumulatedTime)
                + (IF ev'.scanned # {} THEN TickSeconds ELSE 0)

C21_PresenceBasedAccrual == [][C21_Step]_vars

\* The first tick found two processes and accrued one interval.
C21_Witness ==
    /\ ev.kind = "tick" /\ ev.scan = "ok" /\ Cardinality(ev.scanned) = 2
    /\ now = CtlStart + TickSeconds
    /\ q.AccumulatedTime = TickSeconds

\* A tick found no process and the accrued time stayed as it was.
C21_WitnessNone ==
    /\ ev.kind = "tick" /\ ev.scan = "ok" /\ ev.scanned = {}
    /\ now = CtlStart + 2 * TickSeconds
    /\ q.AccumulatedTime = TickSeconds

\* C22: when the scanner returns an error the tick ends at once: the
\* accumulated seconds and the three flags keep the values they had when the
\* scan was invoked (after the reset check), no notifier call and no terminate
\* call is made and no save is attempted.
ScanFailedStep == now' # now /\ ev'.kind = "tick" /\ ev'.scan = "err"

C22_Step ==
    ScanFailedStep =>
        /\ q' = (IF ResetsFirst THEN Reset(q, cfg, now') ELSE q)
        /\ ev'.notified = "none" /\ ev'.terminated = {}
        /\ sent'.first + sent'.final + sent'.limit =
              (IF ResetsFirst THEN 0
               ELSE sent.first + sent.final + sent.limit)
        /\ ev'.save = "none"
        /\ disk' = disk /\ lastSaveTime' = lastSaveTime
        /\ running'

C22_ScanFailureAbortsTick == [][C22_Step]_vars

\* The scan failed in a tick in which a first warning was due: the warning is
\* still to be given.
C22_Witness ==
    /\ ev.kind = "tick" /\ ev.scan = "err"
    /\ ~IsLimitExceeded(q, cfg)
    /\ GetRemainingMinutes(q, cfg) <= cfg.FirstThreshold
    /\ GetRemainingMinutes(q, cfg) > cfg.FinalThreshold
    /\ ~q.FirstWarningNotified

\* The scan failed in a tick in which a save was due: none was made.
C22_WitnessSaveDue ==
    /\ ev.kind = "tick" /\ ev.scan = "err"
    /\ SaveDue(now, lastSaveTime)
    /\ q.AccumulatedTime > 0

\* C23: no collaborator error stops enforcement. A tick never ends the loop,
\* whatever its scan, notifier, terminate and save calls return: the loop ends
\* only in the cleanup that follows a shutdown signal. A failing notifier or
\* terminate call does not skip the rest of its tick: every scanned process
\* is still terminated when the limit is exceeded and the save still runs
\* when it is due. A failed save leaves the time of the last save as it was,
\* so the next tick saves again.
C23_Step ==
    /\ (now' # now /\ ev'.kind = "tick") => running'
    /\ (running /\ ~running') => ev'.kind = "cleanup"
    /\ (TickStep /\ (ev'.notifyErr \/ ev'.termErr # {})) =>
          /\ ev'.exceeded => ev'.terminated = ev'.scanned
          /\ ev'.save # "none" <=> SaveDue(now', lastSaveTime)
    /\ (TickStep /\ ev'.save = "fail") =>
          /\ lastSaveTime' = lastSaveTime
          /\ SaveDue(now' + TickSeconds, lastSaveTime')

C23_ErrorsDoNotStopLoop == [][C23_Step]_vars

\* In one tick the limit notification failed, a termination failed, both
\* processes were still terminated and the due save was made; the loop runs.
C23_Witness ==
    /\ running /\ ev.kind = "tick"
    /\ ev.notified = "limit" /\ ev.notifyErr
    /\ ev.termErr # {} /\ ev.terminated = ev.scanned
    /\ Cardinality(ev.scanned) = 2
    /\ ev.save = "ok" /\ lastSaveTime = now

\* The save of a tick failed and the loop goes on.
C23_WitnessSaveFailed ==
    /\ running /\ ev.kind = "tick" /\ ev.save = "fail"
    /\ SaveDue(now, lastSaveTime)

\* C24: a notification whose notifier call failed is attempted again on the
\* next tick in which its condition still holds.
DueAfter(kind) ==
    IF kind = "limit" THEN ev'.exceeded
    ELSE IF kind = "final"
    THEN ~ev'.exceeded /\ GetRemainingMinutes(q', cfg) <= cfg.FinalThreshold
    ELSE /\ ~ev'.exceeded
         /\ GetRemainingMinutes(q', cfg) <= cfg.FirstThreshold
         /\ GetRemainingMinutes(q', cfg) > cfg.FinalThreshold

C24_Step ==
    (/\ ev.kind = "tick" /\ ev.notified # "none" /\ ev.notifyErr
     /\ TickStep /\ ~ResetsFirst
     /\ DueAfter(ev.notified)) =>
        ev'.notified = ev.notified

C24_FailedNotificationRetried == [][C24_Step]_vars

\* C25: within one reset cycle a notification that was dispatched before the
\* process stopped is not dispatched again by a process that was started
\* afterwards and loaded the persisted record (sent counts the dispatches of
\* the cycle across restarts).
DispatchedBefore(kind) ==
    IF kind = "limit" THEN sent.limit
    ELSE IF kind = "final" THEN sent.final
    ELSE sent.first

C25_Step ==
    (/\ TickStep /\ ~ResetsFirst /\ ev'.notified # "none"
     /\ call.op = "runStart" /\ call.ret = <<"nil">>) =>
        DispatchedBefore(ev'.notified) = 0

C25_OncePerDayAcrossRestarts == [][C25_Step]_vars

----------------------------------------------------------------------------
(* Claims about the start of the program *)

\* p returns from Acquire in this step, with result r.
ReturnsWith(p, r) == pc[p] # "idle" /\ pc'[p] = "idle" /\ res'[p] = r

\* C26: when Acquire fails with ErrAlreadyRunning the start ends without
\* loading, creating or writing the state file and without a tick, and the
\* marker and the state file of the running instance are left as they were.
C26_Step ==
    \A p \in Procs :
        ReturnsWith(p, ErrAlreadyRunning) =>
            /\ marker' = marker
            /\ UNCHANGED <<disk, q, lastSaveTime, running, ev>>

C26_RefusedStartTouchesNothing == [][C26_Step]_vars

\* The create, the read or the removal of the marker by p fails in this step
\* for a reason other than "already exists" or "does not exist": p leaves the
\* call from that statement, and the marker is as it was.
IOFailureStep(p) ==
    /\ alive'[p] /\ pc'[p] = "idle" /\ marker' = marker
    /\ \/ pc[p] \in {"create", "read"}
       \/ pc[p] = "remove" /\ marker # NoFile

\* C27: when creating, reading or removing the marker fails for such a
\* reason, Acquire returns no guard and an error that is not
\* ErrAlreadyRunning.
C27_Step ==
    \A p \in Procs :
        IOFailureStep(p) =>
            /\ res'[p] \notin {"guard", ErrAlreadyRunning, "none"}
            /\ guard'[p] # "held"

C27_IOFailureIsDistinct == [][C27_Step]_vars

\* A call failed on I/O while another process holds the guard: its caller
\* is not told that an instance runs.
C27_Witness ==
    \E p, o \in Procs :
        /\ p # o /\ guard[o] = "held" /\ alive[o] /\ marker.pid = o
        /\ pc[p] = "idle" /\ res[p] = IOError /\ guard[p] = "none"

----------------------------------------------------------------------------
(* Claims about concurrent use of the record *)

\* C28: a read of the record or a save that runs beside a mutating method
\* sees the record entirely before or entirely after it: while a reading
\* method is in flight no mutating method is, and every field it has read
\* is the field of the record as it is.
C28_NoDirtyRead ==
    \A t \in Threads :
        thr[t].op \in ReadingMethods =>
            /\ \A o \in Threads \ {t} : thr[o].op \notin MutatingMethods
            /\ \A f \in DOMAIN thr[t].seen : thr[t].seen[f] = q[f]

\* Reset is half way (time zeroed, flags not yet cleared) and holds the
\* mutex: no reading method is in flight.
C28_Witness ==
    /\ thr["tick"].op = "Reset" /\ thr["tick"].at = 3
    /\ q.AccumulatedTime = 0 /\ q.FirstWarningNotified
    /\ mu = "tick" /\ thr["query"].op = "none"

\* SaveToFile has read all six fields of a record with time accrued and a
\* flag set.
C28_WitnessSave ==
    /\ thr["query"].op = "SaveToFile"
    /\ DOMAIN thr["query"].seen = DOMAIN q
    /\ q.AccumulatedTime > 0 /\ q.FirstWarningNotified

\* C29: once a shutdown signal has been delivered to the run loop, the loop
\* eventually receives it: it has then stopped (no tick can follow), the
\* signal is consumed and the last thing it did is the cleanup with its save
\* attempted, whatever the save interval. Ticks are steps that end, so a tick
\* in flight has returned before the loop selects again.
C29_SignalStopsLoop ==
    (running /\ sigChan # NoSignal)
        ~> (/\ ~running
            /\ sigChan = NoSignal
            /\ ev.kind = "cleanup"
            /\ ev.save # "none"
            /\ ~ENABLED Tick)

\* The loop has returned after ticks took place, its cleanup save written.
C29_Witness ==
    /\ ~running
    /\ now > CtlStart
    /\ ev.kind = "cleanup"
    /\ ev.save = "ok"
    /\ Unmarshal(disk.rec) = q

\* A tick was chosen while the signal was waiting in sigChan.
C29_WitnessTickOverSignal ==
    /\ running
    /\ sigChan # NoSignal
    /\ ev.kind = "tick"
    /\ now > sigChan[1].at

\* C30: the steps of a tick run in the order reset check, scan, accrual,
\* enforcement, warning, persist. For every tick whose scan succeeds: the
\* reset check is made on the record the tick found; the time of the tick is
\* added to the record after the reset, if there was one; the limit check
\* is made on the record after the accrual, so the tick whose accrual
\* reaches the limit is the one that dispatches the limit notification and
\* terminates what it scanned, and a warning is dispatched only when that
\* check found the limit not exceeded; a save of the tick writes the record
\* as all of these steps left it.
Accrued(found) ==
    LET q1 == IF ShouldReset(q, now') THEN Reset(q, cfg, now') ELSE q
    IN  IF found # {} THEN AddTime(q1, TickSeconds) ELSE q1

ReachesLimit(found) ==
    /\ ~IsLimitExceeded(q, cfg)
    /\ IsLimitExceeded(Accrued(found), cfg)

C30_Step ==
    TickStep =>
        LET acc == Accrued(ev'.scanned)
        IN  /\ ev'.reset <=> ShouldReset(q, now')
            /\ q'.AccumulatedTime = acc.AccumulatedTime
            /\ q'.LastResetTime = acc.LastResetTime
            /\ ev'.exceeded <=> IsLimitExceeded(acc, cfg)
            /\ ReachesLimit(ev'.scanned) =>
                    /\ ev'.notified = "limit"
                    /\ ev'.terminated = ev'.scanned
            /\ ev'.notified = "limit" => IsLimitExceeded(acc, cfg)
            /\ ev'.notified \in {"first", "final"} =>
                    ~IsLimitExceeded(acc, cfg)
            /\ ev'.terminated # {} => IsLimitExceeded(acc, cfg)
            /\ ev'.save = "ok" => Unmarshal(disk'.rec) = q'

C30_TickOrder == [][C30_Step]_vars

\* The tick whose accrual brought the time to the limit has dispatched the
\* limit notification and terminated the process it scanned.
C30_Witness ==
    /\ ev.kind = "tick"
    /\ ev.scanned # {}
    /\ q.AccumulatedTime = cfg.DailyLimit * 60
    /\ ev.notified = "limit"
    /\ ev.terminated = ev.scanned

\* A tick reset the record and then added its own time.
C30_WitnessResetThenAccrual ==
    /\ ev.kind = "tick"
    /\ ev.reset
    /\ ev.scanned # {}
    /\ q.AccumulatedTime = TickSeconds

\* C31: a tick calls ConsumeWarningNotifications only when its limit check
\* found the limit not exceeded, and dispatches at most one notification. For
\* every tick whose scan succeeds: the dispatch counts grow by at most one in
\* total; when the limit is exceeded no warning is dispatched and the two
\* warning flags are as the accrual left them; when it is not, no limit
\* notification is dispatched and the limit flag is as the accrual left it;
\* and when both warnings are due only the final one is dispatched.
Dispatched(kind) ==
    sent'[kind] - (IF ev'.reset THEN 0 ELSE sent[kind])

BothWarningsDue(r) ==
    /\ ~IsLimitExceeded(r, cfg)
    /\ GetRemainingMinutes(r, cfg) <= cfg.FinalThreshold
    /\ GetRemainingMinutes(r, cfg) <= cfg.FirstThreshold
    /\ ~r.FirstWarningNotified
    /\ ~r.FinalWarningNotified

C31_Step ==
    TickStep =>
        LET acc == Accrued(ev'.scanned)
        IN  /\ Dispatched("first") + Dispatched("final")
                  + Dispatched("limit") <= 1
            /\ IsLimitExceeded(acc, cfg) =>
                  /\ Dispatched("first") = 0
                  /\ Dispatched("final") = 0
                  /\ q'.FirstWarningNotified = acc.FirstWarningNotified
                  /\ q'.FinalWarningNotified = acc.FinalWarningNotified
            /\ ~IsLimitExceeded(acc, cfg) =>
                  /\ Dispatched("limit") = 0
                  /\ q'.LimitNotified = acc.LimitNotified
            /\ BothWarningsDue(acc) =>
                  /\ Dispatched("final") = 1
                  /\ Dispatched("first") = 0
                  /\ ev'.notified = "final"

C31_AtMostOneNotification == [][C31_Step]_vars

\* A tick past the limit dispatched the limit notification and left the final
\* warning, never given in this cycle, alone.
C31_Witness ==
    /\ ev.kind = "tick"
    /\ ev.exceeded
    /\ ev.notified = "limit"
    /\ ~q.FinalWarningNotified
    /\ sent.final = 0

\* A tick with both warnings due dispatched the final one only.
C31_WitnessBothDue ==
    /\ ev.kind = "tick"
    /\ ev.notified = "final"
    /\ ~q.FirstWarningNotified
    /\ GetRemainingMinutes(q, cfg) <= cfg.FirstThreshold
    /\ sent.first = 0
    /\ sent.final = 1

\* The persist step of a tick whose scan succeeds, given whether the save was
\* due: the save is attempted exactly when due; a save that succeeds sets the
\* last-saved time to the time of the tick; a save that fails, or no save,
\* leaves it alone; and the tick after one whose save failed attempts the
\* save again.
PersistStep(due) ==
    TickStep =>
        /\ ev'.save # "none" <=> due
        /\ ev'.save = "ok" => lastSaveTime' = now'
        /\ ev'.save # "ok" => lastSaveTime' = lastSaveTime
        /\ ev'.save = "none" => disk' = disk
        /\ (ev.kind = "tick" /\ ev.save = "fail") => ev'.save # "none"

\* C32 as stated: a tick saves only when the time since the last successful
\* save exceeds the interval of one minute; a failed save leaves the
\* last-saved time unchanged and is retried by the following ticks; only a
\* successful save restarts the interval.
C32_SavesPastInterval == [][PersistStep(now' - lastSaveTime > SaveInterval)]_vars

\* C32, amended: a tick saves exactly when the time since the last successful
\* save (or since the controller was built) is at least the interval of one
\* minute; a failed save leaves the last-saved time unchanged and is retried
\* by the following ticks; only a successful save restarts the interval.
C32_SavesAtInterval == [][PersistStep(now' - lastSaveTime >= SaveInterval)]_vars

\* The save of the tick one minute after the start failed, and the tick after
\* it has saved.
C32_Witness ==
    /\ ev.kind = "tick"
    /\ ev.save = "ok"
    /\ diskFaults > 0
    /\ now = CtlStart + SaveInterval + TickSeconds
    /\ lastSaveTime = now
    /\ Unmarshal(disk.rec) = q

\* A tick has saved exactly one minute after the controller was built.
C32_WitnessAtInterval ==
    /\ ev.kind = "tick"
    /\ ev.save = "ok"
    /\ now = CtlStart + SaveInterval
    /\ lastSaveTime = now

-----------------------------------------------------------------------------
(* Claims about the run loop *)

\* C33: ticks never overlap and the cleanup never runs beside a tick. A call
\* of tick begins only when no call of tick is in flight, however long the
\* one before took; at most one is ever in flight; and the step in which the
\* loop runs cleanup and returns is taken with no tick in flight.
C33_Step ==
    /\ Len(loop'.ticks) > Len(loop.ticks) => loop.ticks = <<>>
    /\ Len(loop'.ticks) <= 1
    /\ (running /\ ~running') => loop.ticks = <<>> /\ ev'.kind = "cleanup"
    /\ (loop.ticks # <<>> /\ ev' # ev) => ev'.kind = "tick" /\ loop'.ticks = <<>>

C33_NoOverlap == [][C33_Step]_vars

\* A tick has been in flight for two tick intervals or more, with the next
\* tick and a signal both waiting for the loop.
C33_Witness ==
    /\ running
    /\ loop.at = "tick"
    /\ loop.ticks # <<>>
    /\ now - loop.ticks[1] >= 2 * TickSeconds
    /\ loop.tickerC = 1
    /\ sigChan # NoSignal

\* The loop has run cleanup and returned after ticks that accrued time, with
\* a further tick still waiting in ticker.C.
C33_WitnessCleanupAfterTick ==
    /\ ~running
    /\ ev.kind = "cleanup"
    /\ loop.ticks = <<>>
    /\ loop.tickerC = 1
    /\ q.AccumulatedTime > 0
    /\ sent.added > 0

-----------------------------------------------------------------------------
(* Claims about the life of an instance *)

\* The steps of the instance come in the order of runStart: the state file is
\* read and the loop entered only with the guard held, every tick and the
\* cleanup run with the guard held, and the guard is released only after the
\* loop has stopped and cleanup has run.
LifeOrderStep ==
    /\ (~running /\ running') => guard[Instance] = "held"
    /\ ev' # ev => guard[Instance] = "held" /\ guard'[Instance] = "held"
    /\ (guard[Instance] = "held" /\ guard'[Instance] # "held") =>
          ~running /\ ev.kind = "cleanup" /\ ev'.kind = "cleanup"

\* While the instance holds its guard no other process is given one, and no
\* other process reads the state file.
OthersKeptOutStep ==
    \A p \in Procs \ {Instance} :
        /\ (guard[p] # "held" /\ guard'[p] = "held") =>
              guard'[Instance] # "held"
        /\ (call' # call /\ call'.ret = <<p>>) => guard[Instance] # "held"

\* C34: the guard is held for the whole life of an instance: acquired before
\* the state file is read and before any tick, released only after the loop
\* has stopped and the cleanup save is done; so while the instance lives no
\* other process acquires the guard and reads the state file before the
\* final flush.
C34_GuardHeldForLife == [][LifeOrderStep /\ OthersKeptOutStep]_vars

-----------------------------------------------------------------------------
(* Claims about what a run of ticks does *)

\* C35: TerminateWithRetry is called only in a tick in which, after that
\* tick's reset check and accrual, the accumulated minutes (seconds div 60)
\* have reached the daily limit: a step that terminates a process is a tick
\* whose scan succeeded, the record it leaves has no minute remaining, and
\* the processes terminated are among those it scanned.
C35_Step ==
    (ev' # ev /\ ev'.terminated # {}) =>
        /\ TickStep
        /\ Accrued(ev'.scanned).AccumulatedTime \div MinuteSeconds
              >= cfg.DailyLimit
        /\ q'.AccumulatedTime \div MinuteSeconds >= cfg.DailyLimit
        /\ cfg.DailyLimit - (q'.AccumulatedTime \div MinuteSeconds) < 1
        /\ ev'.terminated \subseteq ev'.scanned

C35_TerminatesOnlyAtLimit == [][C35_Step]_vars

\* A tick past the limit terminated what it scanned, the limit notification
\* having been given by an earlier tick.
C35_Witness ==
    /\ ev.kind = "tick"
    /\ ev.scanned # {}
    /\ ev.terminated = ev.scanned
    /\ ev.notified = "none"
    /\ q.LimitNotified
    /\ q.AccumulatedTime > cfg.DailyLimit * MinuteSeconds

\* A tick five seconds short of the limit scanned processes and terminated
\* none.
C35_WitnessSpared ==
    /\ ev.kind = "tick"
    /\ ev.scanned # {}
    /\ ev.terminated = {}
    /\ q.AccumulatedTime = cfg.DailyLimit * MinuteSeconds - TickSeconds

-----------------------------------------------------------------------------
(* Claims about the marker file *)

\* p's step changes a marker that is there and is not the file p created.
TouchesOthersMarker(p) ==
    /\ marker # NoFile
    /\ marker.ino # p
    /\ marker' # marker

\* C36: an Acquire call that returns ErrAlreadyRunning leaves the marker as
\* it found it at its last look: the step in which a call returns
\* ErrAlreadyRunning neither deletes nor rewrites a marker of another
\* process, and the marker that made it give up is still there afterwards,
\* in the first round and in the retry.
C36_Step ==
    \A p \in Procs :
        ReturnsWith(p, ErrAlreadyRunning) =>
            /\ ~TouchesOthersMarker(p)
            /\ marker' # NoFile

C36_RefusalLeavesMarker == [][C36_Step]_vars

\* C37: Release removes only the marker its own guard created: a Release
\* call, the first of a guard or a repeated one, never deletes a marker that
\* is there and was created by another process.
C37_Step ==
    \A p \in Procs :
        (guard[p] # "none" /\ guard'[p] # guard[p] /\ guard'[p] # "held"
            /\ guard'[p] # "none") => ~TouchesOthersMarker(p)

C37_ReleaseRemovesOwnMarkerOnly == [][C37_Step]_vars

\* The dispatches of the current cycle before this tick's own.
SentBefore(kind) == IF ev'.reset THEN 0 ELSE sent[kind]

\* C38: within one reset cycle the notifications come in the order first
\* warning, final warning, limit: a tick dispatches the first warning only
\* if neither the final warning nor the limit notification of the cycle has
\* been dispatched, and the final warning only if the limit notification has
\* not been.
C38_Step ==
    TickStep =>
        /\ Dispatched("first") > 0 =>
              SentBefore("final") = 0 /\ SentBefore("limit") = 0
        /\ Dispatched("final") > 0 => SentBefore("limit") = 0
        /\ ev'.notified \in {"first", "final"} => ~q'.LimitNotified
        /\ ev'.notified = "first" => ~q'.FinalWarningNotified

C38_NotificationOrder == [][C38_Step]_vars

\* The final warning was dispatched in a cycle whose first warning had been.
C38_Witness ==
    /\ ev.kind = "tick"
    /\ ev.notified = "final"
    /\ sent.first = 1
    /\ sent.final = 1
    /\ sent.limit = 0

\* The limit notification was dispatched in a cycle whose final warning had
\* been.
C38_WitnessLimitLast ==
    /\ ev.kind = "tick"
    /\ ev.notified = "limit"
    /\ sent.final = 1
    /\ sent.limit = 1

-----------------------------------------------------------------------------
(* Claims about the first tick after a start *)

\* The loop has just been started with a record whose reset time has passed
\* and whose accumulation is at or above the limit.
StartsStaleOverLimit ==
    /\ running
    /\ ev = NoEvent
    /\ call.op = "runStart"
    /\ q.NextResetTime < now
    /\ IsLimitExceeded(q, cfg)

\* C39: when the loop starts with a loaded record whose reset time is in the
\* past and whose accumulation is at or above the limit, the first tick
\* resets the record before anything else: it finds the limit not exceeded,
\* dispatches no limit notification, terminates no process, and leaves a
\* record of the new cycle holding at most this tick's own time.
C39_Step ==
    (StartsStaleOverLimit /\ ev'.kind = "tick") =>
        /\ ev'.reset
        /\ ~ev'.exceeded
        /\ ev'.notified # "limit"
        /\ ev'.terminated = {}
        /\ q'.AccumulatedTime =
              IF ev'.scanned # {} THEN TickSeconds ELSE 0
        /\ q'.LastResetTime = now'
        /\ q'.NextResetTime > now'
        /\ ~q'.LimitNotified

C39_FirstTickResetsFirst == [][C39_Step]_vars

\* The first tick after such a start scanned a process, reset the record and
\* terminated nothing; the state file still holds the record of the day
\* before, above the limit.
C39_Witness ==
    /\ ev.kind = "tick"
    /\ ev.reset
    /\ ev.scanned # {}
    /\ ev.terminated = {}
    /\ q.AccumulatedTime = TickSeconds
    /\ disk.status = "saved"
    /\ IsLimitExceeded(Unmarshal(disk.rec), cfg)
    /\ Unmarshal(disk.rec).LimitNotified
    /\ ~q.LimitNotified

-----------------------------------------------------------------------------
(* Claims about progress to the limit *)

\* The limit notification has been dispatched and the tick that dispatched it
\* has called terminate for what it scanned.
LimitEnforced ==
    /\ sent.limit > 0
    /\ ev.kind = "tick"
    /\ ev.exceeded
    /\ ev.scanned # {}
    /\ ev.terminated = ev.scanned

\* C40: from a fresh record with 0 < finalThreshold < firstThreshold <
\* dailyLimit, with ticks that keep firing, scans that succeed with a tracked
\* process and no reset due, the loop dispatches the first warning, later the
\* final warning, later the limit notification, and then terminates: the
\* final warning is never dispatched before the first, the limit
\* notification never before the final warning, each at a later tick than
\* the one before, and the limit is eventually enforced.
C40_ReachesEnforcement ==
    /\ [](sent.final > 0 => sent.first > 0)
    /\ [](sent.limit > 0 => sent.final > 0)
    /\ [](ev.notified = "final" => q.FirstWarningNotified)
    /\ [](ev.notified = "limit" => q.FinalWarningNotified)
    /\ <>(sent.first > 0)
    /\ (sent.first > 0) ~> (sent.final > 0)
    /\ (sent.final > 0) ~> LimitEnforced

\* All three notifications have been dispatched, once each, and the tick of
\* the limit notification terminated what it scanned.
C40_Witness ==
    /\ sent.first = 1
    /\ sent.final = 1
    /\ sent.limit = 1
    /\ ev.notified = "limit"
    /\ ev.terminated = ev.scanned
    /\ ev.scanned # {}
    /\ q.AccumulatedTime = cfg.DailyLimit * MinuteSeconds

====
